---- MODULE Spec2Model ----
(***************************************************************************)
(* A model of the LOONE daily lake simulation (Aquaveo/LOONE):             *)
(*   src/loone/loone_q/LOONE_Q.py   the daily loop and its sub-steps       *)
(*   src/loone/data/model_variables.py   the model-variable arrays         *)
(*   src/AP_FNs.py, src/THC_Class.py     the Adaptive Protocol rule chain  *)
(*                                                                         *)
(* Number conventions.  Stages are tenths of a foot (10 ft = 100), flows   *)
(* are cfs, volumes are 1/10000 ac-ft, so that the factor 1.9835 of the    *)
(* source is the exact integer factor 19835 from a flow to a volume.       *)
(* The flag arrays of the Adaptive Protocol are numpy float arrays: a      *)
(* Python bool stored in them reads back as 0 or 1, the initial value is 0.*)
(* Floating point rounding is not modelled.                                *)
(***************************************************************************)
EXTENDS Integers, Sequences, FiniteSets, TLC

VARIABLES
    cfg,      \* the configuration map (config / Pre_defined_Variables)
    n_rows,   \* len(lo_model.index): the day before the start date .. end date
    pc,       \* position of the run: setup step, loop sub-step, "done", "error"
    i,        \* the loop variable of LOONE_Q's daily loop
    mv,       \* M_var: the day-indexed arrays of length n_rows
    ap,       \* M_var: the Adaptive Protocol arrays of length n_rows - 1
    dt,       \* M_var: the decision-tree arrays of length n_rows - 1
    inp,      \* the entries of the external input tables read so far
    pulse,    \* the rows of data.Pulses the last lookups read
    err,      \* "none" or the exception that ended the run / the call
    call      \* function-level specification: the function applied last

vars == <<cfg, n_rows, pc, i, mv, ap, dt, inp, pulse, err, call>>

-----------------------------------------------------------------------------
(* Bounds of the model *)

\* the largest n_rows of a run (11 rows = a 10-day horizon)
MaxRows == 11
\* n_rows of the store the function-level specification applies functions to
FnRows == 4

\* np.nan, a value outside every other range used
NaN == -77777777

B2N(b) == IF b THEN 1 ELSE 0

Min2(a, b) == IF a <= b THEN a ELSE b

-----------------------------------------------------------------------------
(* src/AP_FNs.py: the rules of the Adaptive Protocol.  A rule that raises  *)
(* (its result variable is unbound at the return) has a ..Raises predicate.*)

THC_Class_normal_or_above(Tributary_Hydrologic_Condition, THC_threshold) ==
    B2N(Tributary_Hydrologic_Condition > THC_threshold)

LStgCorres(month, WSMs_WSM1, Targ_Stg, Opt_LChance_line, LowChance) ==
    IF Opt_LChance_line = 1
    THEN IF month > 5 /\ month < 10 THEN WSMs_WSM1 ELSE WSMs_WSM1 + 5
    ELSE IF LowChance = 1 \/ (month > 5 /\ month < 10)
         THEN -9990
         ELSE Targ_Stg

LowChance_Check(Lake_O_Stage_AP, LStg) == B2N(Lake_O_Stage_AP > LStg)

\* a mutant of Forecast_D_SalRaises: the stubs return
Forecast_D_SalReturns(OptSalFcast) == FALSE

Forecast_D_SalRaises(OptSalFcast) == OptSalFcast # 3
Forecast_D_Sal(OptSalFcast) == NaN

n30d_mavgRaises(OptSalFcast) == OptSalFcast # 3
n30d_mavg(OptSalFcast) == NaN

\* Python's max() over a slice: keeps the first item unless a later one
\* compares greater; every comparison with nan is False.
PyGt(a, b) == a # NaN /\ b # NaN /\ a > b

RECURSIVE PyMaxFrom(_, _, _)
PyMaxFrom(s, k, best) ==
    IF k > Len(s) THEN best
    ELSE PyMaxFrom(s, k + 1, IF PyGt(s[k], best) THEN s[k] ELSE best)

PyMax(s) == PyMaxFrom(s, 2, s[1])

n30davgForecast(Estuary_needs_water, n30d_mavg_i2iplus13, OptSalFcast, CE_SalThreshold) ==
    IF OptSalFcast = 3 THEN Estuary_needs_water
    ELSE B2N(PyGt(PyMax(n30d_mavg_i2iplus13), CE_SalThreshold))

LORS08_bf_rel(S77BS_AP, n30davg) == IF S77BS_AP > 0 THEN n30davg ELSE 0

LDS_LC6_1(Late_Dry_Season, LowChance, Late_Dry_Season_Option) ==
    IF Late_Dry_Season_Option = 1
    THEN IF Late_Dry_Season = 1 THEN LowChance ELSE 0
    ELSE LowChance

S_O(LDS, S77BS_AP) == IF LDS = 0 THEN (IF S77BS_AP > 0 THEN 1 ELSE 0) ELSE 0

All_4(LORS08, LDS) == IF LORS08 = 1 THEN LDS ELSE 0

Sabf(Lake_O_Schedule_Zone) == B2N(Lake_O_Schedule_Zone > 3)
Swbf(Lake_O_Schedule_Zone) == B2N(Lake_O_Schedule_Zone = 3)
Swbu(Lake_O_Schedule_Zone) == B2N(Lake_O_Schedule_Zone = 2)

All_4andStage(All4, SabfV) == B2N(All4 = 1 /\ SabfV = 1)
All_4andStagein(All4, SabfV) == B2N(All4 = 1 /\ SabfV = 0)

\* a mutant of P_AP_BF_Stg: the baseflow is not looked at
P_AP_BF_Stg_AnyBaseflow(Lake_O_Schedule_Zone, S77BS_AP) ==
    B2N(Lake_O_Schedule_Zone > 3 /\ Lake_O_Schedule_Zone < 7)

P_AP_BF_Stg(Lake_O_Schedule_Zone, S77BS_AP) ==
    B2N((Lake_O_Schedule_Zone > 3 /\ Lake_O_Schedule_Zone < 7) /\ S77BS_AP > 0)

\* a mutant of Logic_test_1: the option test inverted
Logic_test_1_Inverted(All4Stage, PAPBF, Opt_NoAP_above_BF_SB) ==
    IF Opt_NoAP_above_BF_SB = 0 THEN PAPBF ELSE All4Stage

Logic_test_1(All4Stage, PAPBF, Opt_NoAP_above_BF_SB) ==
    IF Opt_NoAP_above_BF_SB = 0 THEN All4Stage ELSE PAPBF

\* a mutant of Post_Ap_Baseflow: the bounded branch is not bounded
Post_Ap_Baseflow_Unbounded(Logic, S77BS_AP, All4Stagein, Choose_1) ==
    IF Logic = 1 THEN S77BS_AP
    ELSE IF All4Stagein = 1 THEN S77BS_AP
    ELSE 0

Post_Ap_Baseflow(Logic, S77BS_AP, All4Stagein, Choose_1) ==
    IF Logic = 1 THEN S77BS_AP
    ELSE IF All4Stagein = 1 THEN Min2(S77BS_AP, Choose_1)
    ELSE 0

S77RSplusPreAPS77bsf(S77RS_Pre_AP_S77_Baseflow, Lake_O_Schedule_Zone, Opt_CEews_LOWSM) ==
    IF Opt_CEews_LOWSM = 0
    THEN B2N(S77RS_Pre_AP_S77_Baseflow = 0 /\ Lake_O_Schedule_Zone > 1)
    ELSE B2N(S77RS_Pre_AP_S77_Baseflow = 0)

\* a mutant of AndEstNeedsLakeWater: the releases of S-77 are not looked at
AndEstNeedsLakeWater_NoSum(n30davg, S77RSplus) == n30davg

AndEstNeedsLakeWater(n30davg, S77RSplus) == B2N(n30davg = 1 /\ S77RSplus = 1)

AndLowChance61stagelessth11(LDS, AndEst) == B2N(LDS = 1 /\ AndEst = 1)

ATHCnora(AndLow, THCnora, Late_Dry_Season, Opt_THCbypLateDS) ==
    IF Opt_THCbypLateDS = 1
    THEN B2N(AndLow = 1 /\ (THCnora = 1 \/ Late_Dry_Season = 1))
    ELSE B2N(AndLow = 1 /\ THCnora = 1)

\* the cutback fraction, kept in percent (C1 of the source times 100)
Choose_PAPEWS_1(WSM_Zone, APCB1, APCB2, APCB3, APCB4) ==
    IF WSM_Zone = 1 THEN APCB1
    ELSE IF WSM_Zone = 2 THEN APCB2
    ELSE IF WSM_Zone = 3 THEN APCB3
    ELSE IF WSM_Zone = 4 THEN APCB4
    ELSE -999900

Choose_PAPEWS_2Raises(Opt_CEews_LOWSM) == Opt_CEews_LOWSM \notin {0, 1, 2}
Choose_PAPEWS_2(Opt_CEews_LOWSM, CalEst_ews) ==
    IF Opt_CEews_LOWSM + 1 = 1 THEN 0
    ELSE IF Opt_CEews_LOWSM + 1 = 2 THEN CalEst_ews
    ELSE 300

\* a mutant of Post_AP_EWS: the supply is not cut back
Post_AP_EWS_NoCutback(ATHC, WSM_Zone, C1pct, C2, CalEst_ews) ==
    IF ATHC = 1
    THEN IF WSM_Zone = 0 THEN CalEst_ews ELSE C2
    ELSE 0

\* (1 - C1) * C2 with C1 in percent
Post_AP_EWS(ATHC, WSM_Zone, C1pct, C2, CalEst_ews) ==
    IF ATHC = 1
    THEN IF WSM_Zone = 0 THEN CalEst_ews ELSE ((100 - C1pct) * C2) \div 100
    ELSE 0

-----------------------------------------------------------------------------
(* src/loone/data/model_variables.py: the arrays, all zero after M_var().  *)

APFields ==
    {"THC_Class_normal_or_above", "Lake_O_Stage_AP", "Lake_O_Schedule_Zone",
     "LStgCorres", "LowChance_Check", "S77RS_AP", "S77BS_AP",
     "S77RS_Pre_AP_S77_Baseflow", "Forecast_D_Sal", "n30d_mavg",
     "n30davgForecast", "LORS08_bf_rel", "LDS_LC6_1", "S_O", "All_4", "Sabf",
     "Swbf", "Swbu", "All_4andStage", "All_4andStagein", "P_AP_BF_Stg",
     "Logic_test_1", "Post_Ap_Baseflow", "S77RSplusPreAPS77bsf",
     "AndEstNeedsLakeWater", "Choose_PAPEWS_1", "Choose_PAPEWS_2",
     "AndLowChance61stagelessth11", "ATHCnora", "Post_AP_EWS",
     "Post_AP_Baseflow_EWS_cfs"}

\* Count_AP = len(date_rng_5) = n_rows - 1
Count_AP(n) == n - 1

ZeroAP(n) == [f \in APFields |-> [k \in 0 .. (Count_AP(n) - 1) |-> 0]]

\* the percentile columns _calculate_targ_stg_df gives targ_stg_df
TargColumns == {10, 20, 25, 30, 40, 45, 50, 60}

\* a mutant of Late_Dry_Season: the window is a month early
Late_Dry_Season_MarApr(month) == B2N(2 < month /\ month < 5)

\* _calculate_late_dry_season: 3 < date.month < 6
Late_Dry_Season(month) == B2N(3 < month /\ month < 6)

\* a[i : i + 13] of an array of length len
Slice13(arr, ii, len) ==
    [k \in 1 .. (Min2(ii + 13, len) - ii) |-> arr[ii + k - 1]]

(* src/THC_Class.py: the rule chain for day ii.  a is the AP store, c the   *)
(* options, m the store holding Stage_LO (Lake_Stage), Zone_Code, S77RS     *)
(* (Outlet1USRS), S77BS (Outlet1USBS) and WSM_Zone, tb the entries of the   *)
(* input tables for day ii.  The result is the store after the call and the *)
(* exception that ended it, if any: what was stored before stays stored.    *)
THC_Class(ii, a, c, m, tb, Choose_1) ==
    LET thc  == THC_Class_normal_or_above(tb.THC, c.THC_threshold)
        stg  == m.Lake_Stage[ii + 1]
        zone == m.Zone_Code[ii + 1]
        a1 == [a EXCEPT !.THC_Class_normal_or_above[ii] = thc,
                        !.Lake_O_Stage_AP[ii] = stg,
                        !.Lake_O_Schedule_Zone[ii] = zone]
        lstg == LStgCorres(tb.month, tb.WSM1, tb.Targ_Stg,
                           c.Opt_LChance_line, c.LowChance)
        lcc  == LowChance_Check(stg, lstg)
        rs   == m.Outlet1USRS[ii + 2]
        bs   == m.Outlet1USBS[ii + 2]
        a2 == [a1 EXCEPT !.LStgCorres[ii] = lstg,
                         !.LowChance_Check[ii] = lcc,
                         !.S77RS_AP[ii] = rs,
                         !.S77BS_AP[ii] = bs,
                         !.S77RS_Pre_AP_S77_Baseflow[ii] = rs + bs]
        a3 == [a2 EXCEPT !.Forecast_D_Sal[ii] = Forecast_D_Sal(c.OptSalFcast),
                         !.n30d_mavg[ii] = n30d_mavg(c.OptSalFcast)]
        n30  == n30davgForecast(tb.Est,
                                Slice13(a3.n30d_mavg, ii, Cardinality(DOMAIN a3.n30d_mavg)),
                                c.OptSalFcast, c.CE_SalThreshold)
        lors == LORS08_bf_rel(bs, n30)
        lds  == LDS_LC6_1(tb.Late_Dry_Season, lcc, c.Late_Dry_Season_Option)
        all4 == All_4(lors, lds)
        sabf == Sabf(zone)
        a4s  == All_4andStage(all4, sabf)
        a4i  == All_4andStagein(all4, sabf)
        pap  == P_AP_BF_Stg(zone, bs)
        lt1  == Logic_test_1(a4s, pap, c.Opt_NoAP_above_BF_SB)
        pb   == Post_Ap_Baseflow(lt1, bs, a4i, Choose_1)
        rsp  == S77RSplusPreAPS77bsf(rs + bs, zone, c.Opt_CEews_LOWSM)
        aenl == AndEstNeedsLakeWater(n30, rsp)
        alc  == AndLowChance61stagelessth11(lds, aenl)
        athc == ATHCnora(alc, thc, tb.Late_Dry_Season, c.Opt_THCbypLateDS)
        wz   == m.WSM_Zone[ii + 2]
        c1   == Choose_PAPEWS_1(wz, c.APCB1, c.APCB2, c.APCB3, c.APCB4)
        a4 == [a3 EXCEPT !.n30davgForecast[ii] = n30,
                         !.LORS08_bf_rel[ii] = lors,
                         !.LDS_LC6_1[ii] = lds,
                         !.S_O[ii] = S_O(lds, bs),
                         !.All_4[ii] = all4,
                         !.Sabf[ii] = sabf,
                         !.Swbf[ii] = Swbf(zone),
                         !.Swbu[ii] = Swbu(zone),
                         !.All_4andStage[ii] = a4s,
                         !.All_4andStagein[ii] = a4i,
                         !.P_AP_BF_Stg[ii] = pap,
                         !.Logic_test_1[ii] = lt1,
                         !.Post_Ap_Baseflow[ii] = pb,
                         !.S77RSplusPreAPS77bsf[ii] = rsp,
                         !.AndEstNeedsLakeWater[ii] = aenl,
                         !.AndLowChance61stagelessth11[ii] = alc,
                         !.ATHCnora[ii] = athc,
                         !.Choose_PAPEWS_1[ii] = c1]
        c2   == Choose_PAPEWS_2(c.Opt_CEews_LOWSM, c.CalEst_ews)
        ews  == Post_AP_EWS(athc, wz, c1, c2, c.CalEst_ews)
        a5 == [a4 EXCEPT !.Choose_PAPEWS_2[ii] = c2,
                         !.Post_AP_EWS[ii] = ews,
                         !.Post_AP_Baseflow_EWS_cfs[ii] = pb + ews]
    IN  IF c.LowChance \notin TargColumns
        THEN [ap |-> a1, err |-> "KeyError"]
        ELSE IF Forecast_D_SalRaises(c.OptSalFcast)
        THEN [ap |-> a2, err |-> "UnboundLocalError"]
        ELSE IF n30d_mavgRaises(c.OptSalFcast)
        THEN [ap |-> [a2 EXCEPT !.Forecast_D_Sal[ii] = Forecast_D_Sal(c.OptSalFcast)],
              err |-> "UnboundLocalError"]
        ELSE IF Choose_PAPEWS_2Raises(c.Opt_CEews_LOWSM)
        THEN [ap |-> a4, err |-> "UnboundLocalError"]
        ELSE [ap |-> a5, err |-> "none"]

-----------------------------------------------------------------------------
(* Calendar.  Dates are [y, m, d]; the years used have 365 days.           *)

CumDays == <<0, 31, 59, 90, 120, 151, 181, 212, 243, 273, 304, 334>>

OrdOf(date) == CumDays[date.m] + date.d

MonthOfOrd(o) ==
    CHOOSE m \in 1 .. 12 : CumDays[m] < o /\ (m = 12 \/ o <= CumDays[m + 1])

RECURSIVE DateOfOrd(_, _)
DateOfOrd(y, o) ==
    IF o < 1 THEN DateOfOrd(y - 1, o + 365)
    ELSE IF o > 365 THEN DateOfOrd(y + 1, o - 365)
    ELSE [y |-> y, m |-> MonthOfOrd(o), d |-> o - CumDays[MonthOfOrd(o)]]

\* date_range_6[r] = lo_model.date[r]: row 0 is the day before the start date
RowDate(start, r) == DateOfOrd(start.y, OrdOf(start) + r - 1)

\* date_range_5[k] = adaptive_protocol_df.date[k]: entry 0 is the start date
APDate(start, k) == DateOfOrd(start.y, OrdOf(start) + k)

\* the values of DayFlags: 0 (np.zeros), the two strings, or a date
SimDay1 == -1
CS_start_date == -2
DateCode(date) == date.y * 1000 + OrdOf(date)

-----------------------------------------------------------------------------
(* The day-indexed arrays of M_var (length n_rows) and the decision-tree    *)
(* arrays (length Counter = n_rows - 1).                                    *)

MVFields ==
    {"Lake_Stage", "WSM_Zone", "Max_Supply", "LOSA_Supply", "Cut_back",
     "Dem_N_Sup", "NI_Supply", "Zone_Code", "LO_Zone", "DecTree_Relslevel",
     "DayFlags", "PlsDay", "Release_Level", "dh_7days", "ZoneCodeminus1Code",
     "ZoneCodeCode", "Fraction_of_Zone_height", "ReLevelCode_1",
     "ReLevelCode_2", "ReLevelCode_3_S80", "Outlet2DS_Mult",
     "Outlet2DS_Mult_2", "Outlet2DSRS", "Outlet2USRG1", "Sum_Outlet2USRG1",
     "Outlet2DSBS", "Outlet2USBK", "ROeast", "Outlet2USBS", "Sum_Outlet2USBK",
     "Outlet2USRG_Code", "Outlet2USRG", "Outlet2DS", "ReLevelCode_3_S77",
     "Outlet1US_Mult", "Outlet1US_Mult_2", "Outlet1USBSAP", "Outlet1USRS",
     "Sum_Outlet1USRS", "Outlet1USBK", "ROwest", "Outlet1DSBS", "Outlet1USBS",
     "Outlet1USEWS", "Outlet1USREG", "Outlet1DS", "TotRegEW", "Choose_WCA",
     "RegWCA", "Choose_L8C51", "RegL8C51", "TotRegSo", "Stage2ar",
     "Stage2marsh", "RF", "ET", "Choose_WSA_1", "Choose_WSA_2", "WSA_MIA",
     "WSA_NNR", "DSto", "Storage"}

ZeroMV(n) == [f \in MVFields |-> [r \in 0 .. (n - 1) |-> 0]]

DTFields ==
    {"Zone_D_Trib", "Zone_D_stage", "Zone_D_Seas", "Zone_D_MSeas",
     "Zone_D_Branch_Code", "Zone_D_Rel_Code", "Zone_C_Trib", "Zone_C_Seas",
     "Zone_C_MSeas", "Zone_C_MetFcast", "Zone_C_Branch_Code",
     "Zone_C_Rel_Code", "Zone_B_Trib", "Zone_B_Stage", "Zone_B_Seas",
     "Zone_B_Branch_Code", "Zone_B_Rel_Code"}

ZeroDT(n) == [f \in DTFields |-> [k \in 0 .. (n - 2) |-> 0]]

\* the columns of lo_model and of the input tables whose entries the model
\* keeps once they are read (0 until then)
InpFields ==
    {"Net_Inflow", "LOSA_dmd_SFWMM", "C44RO", "C43RO", "EOD_Stg",
     "storage_deviation", "Tributary_Condition", "Estuary_needs_water",
     "Targ_Stg", "LONINO_Seasonal_Classes", "LONINO_MultiSeasonal_Classes"}

ZeroInp(n) == [f \in InpFields |-> [r \in 0 .. (n - 1) |-> 0]]

-----------------------------------------------------------------------------
(* Configuration: the options the modelled code reads.                      *)

DefaultStart == [y |-> 2009, m |-> 1, d |-> 1]

DefaultConfig ==
    [start |-> DefaultStart, beg_stage_cs |-> 120, sim_type |-> 0,
     option_stage |-> 0, THC_threshold |-> 2, Opt_LChance_line |-> 0,
     LowChance |-> 10, OptSalFcast |-> 3, CE_SalThreshold |-> 5,
     Late_Dry_Season_Option |-> 0, Opt_NoAP_above_BF_SB |-> 0,
     Opt_CEews_LOWSM |-> 1, Opt_THCbypLateDS |-> 0,
     APCB1 |-> 20, APCB2 |-> 40, APCB3 |-> 60, APCB4 |-> 100,
     CalEst_ews |-> 300]

\* the options of the Adaptive Protocol, every combination
APOptionSets ==
    [Opt_LChance_line : {0, 1}, LowChance : {1, 10}, OptSalFcast : {1, 2, 3},
     Late_Dry_Season_Option : {0, 1}, Opt_NoAP_above_BF_SB : {0, 1},
     Opt_CEews_LOWSM : {0, 1, 2, 3}, Opt_THCbypLateDS : {0, 1}]

APOptionNames == DOMAIN [Opt_LChance_line |-> 0, LowChance |-> 0, OptSalFcast |-> 0,
                         Late_Dry_Season_Option |-> 0, Opt_NoAP_above_BF_SB |-> 0,
                         Opt_CEews_LOWSM |-> 0, Opt_THCbypLateDS |-> 0]

WithAP(c, o) == [f \in DOMAIN c |-> IF f \in APOptionNames THEN o[f] ELSE c[f]]

\* the configurations of a run: the stage and mode options in every
\* combination under the default Adaptive Protocol options, and every
\* Adaptive Protocol option off its default alone
RunStarts == {DefaultStart, [y |-> 2009, m |-> 5, d |-> 31]}

RunConfigs ==
    { [DefaultConfig EXCEPT !.start = sd, !.beg_stage_cs = bs,
                            !.sim_type = st, !.option_stage = os] :
        sd \in RunStarts, bs \in {70, 120, 185}, st \in {0, 1}, os \in {0, 1} }
    \cup
    { WithAP(DefaultConfig, o) :
        o \in {o \in APOptionSets :
                 Cardinality({f \in APOptionNames : o[f] # DefaultConfig[f]}) = 1} }

\* n_rows of a run: 2 is a one-day horizon, MaxRows a 10-day horizon
RunRows == {2, 3, MaxRows}

\* choose_1 = 450  # cfs
choose_1 == 450

\* len(data.Pulses): the pulse table has ten rows
PulsesLen == 10

-----------------------------------------------------------------------------
(* Python indexing of an array of length len: a negative index counts from *)
(* the end, anything else outside 0 .. len-1 raises IndexError.            *)

PyIndexOK(k, len) == -len <= k /\ k < len
PyIndex(k, len) == IF k < 0 THEN k + len ELSE k

-----------------------------------------------------------------------------
(* The run of LOONE_Q.  pc names the function LOONE_Q calls next.           *)

\* the rows of data.Pulses read last by the lookups of the S-80 columns and
\* of the S-77 columns, levels 1 to 3; -1 before a lookup is made
NoPulseRows == [S80 |-> <<-1, -1, -1>>, S77 |-> <<-1, -1, -1>>]

Init ==
    /\ cfg \in RunConfigs
    /\ n_rows \in RunRows
    /\ pc = "initialize_model_variables_stage_levels_flags"
    /\ i = 0
    /\ mv = ZeroMV(n_rows)
    /\ ap = ZeroAP(n_rows)
    /\ dt = ZeroDT(n_rows)
    /\ inp = ZeroInp(n_rows)
    /\ pulse = NoPulseRows
    /\ err = "none"
    /\ call = "LOONE_Q"

\* the end of a call of the run: the store and the inputs read become m2
\* and in2, and next is called
Step(next, m2, in2) ==
    /\ mv' = m2
    /\ inp' = in2
    /\ pc' = next
    /\ UNCHANGED <<cfg, n_rows, i, ap, dt, pulse, err, call>>

\* the same, and the rows of data.Pulses the call reads become p2
StepPulse(next, m2, in2, p2) ==
    /\ mv' = m2
    /\ inp' = in2
    /\ pulse' = p2
    /\ pc' = next
    /\ UNCHANGED <<cfg, n_rows, i, ap, dt, err, call>>

\* the call raises e after leaving m2 in the store
Raise(e, m2) ==
    /\ mv' = m2
    /\ pc' = "error"
    /\ err' = e
    /\ UNCHANGED <<cfg, n_rows, i, ap, dt, inp, pulse, call>>

\* _determine_day_flags: the flag of row 2.  begdateCS is the start date
\* (_define_start_and_end_dates reads start_date_entry for both).
determine_day_flags(startdate, begdateCS, date2) ==
    IF startdate.m = date2.m /\ startdate.d = date2.d THEN SimDay1
    ELSE IF begdateCS.y = date2.y /\ begdateCS.m = date2.m /\ begdateCS.d = date2.d
         THEN CS_start_date
         ELSE DateCode(date2)

\* the store after the assignments of lines 1692-1695
initialize_stage_levels(m, c) ==
    [m EXCEPT !.Lake_Stage[0] = c.beg_stage_cs,
              !.Lake_Stage[1] = c.beg_stage_cs,
              !.DecTree_Relslevel[0] = NaN,
              !.DecTree_Relslevel[1] = NaN]

\* lo_model["date"].iloc[2] and DayFlags[2] need a third row
initialize_model_variables_stage_levels_flags ==
    /\ pc = "initialize_model_variables_stage_levels_flags"
    /\ \/ /\ n_rows >= 3
          /\ Step("calculate_initial_zone_code_and_lo_zone",
                  [initialize_stage_levels(mv, cfg) EXCEPT
                      !.DayFlags[2] = determine_day_flags(cfg.start, cfg.start,
                                                          RowDate(cfg.start, 2))],
                  inp)
       \/ /\ n_rows < 3
          /\ Raise("IndexError",
                   initialize_stage_levels(mv, cfg))

\* lo_functions.Zone_Code and lo_functions.LO_Zone are not under src: the
\* results are any value of these sets
lo_Zone_Code == {4}
lo_WSM_Zone == {2}

calculate_initial_zone_code_and_lo_zone ==
    /\ pc = "calculate_initial_zone_code_and_lo_zone"
    /\ \E z \in lo_Zone_Code :
           Step("calculate_wsm_zone",
                [mv EXCEPT !.Zone_Code[0] = z, !.LO_Zone[0] = z], inp)

calculate_wsm_zone ==
    /\ pc = "calculate_wsm_zone"
    /\ \E z \in lo_WSM_Zone :
           Step("calculate_max_supply",
                [mv EXCEPT !.WSM_Zone[i + 2] = z], inp)

calculate_max_supply ==
    /\ pc = "calculate_max_supply"
    /\ \E v \in {0} :
           Step("calculate_losa_supply",
                [mv EXCEPT !.Max_Supply[i + 2] = v], inp)

\* lo_model.at[i + 2, "LOSA_dmd_SFWMM"] is read here first
In_LOSA_dmd == {0, 40000}
lo_LOSA_Supply == {10000}

calculate_losa_supply ==
    /\ pc = "calculate_losa_supply"
    /\ \E d \in In_LOSA_dmd, v \in lo_LOSA_Supply :
           Step("calculate_ni_supply",
                [mv EXCEPT !.LOSA_Supply[i + 2] = v],
                [inp EXCEPT !.LOSA_dmd_SFWMM[i + 2] = d])

\* a mutant of ni_supply: the row of the day before is written
ni_supply_DayBefore(ii, m, Net_Inflow) ==
    [m EXCEPT !.NI_Supply[ii + 1] = Net_Inflow[ii + 2] - m.LOSA_Supply[ii + 2]]

\* _calculate_ni_supply
ni_supply(ii, m, Net_Inflow) ==
    [m EXCEPT !.NI_Supply[ii + 2] = Net_Inflow[ii + 2] - m.LOSA_Supply[ii + 2]]

In_Net_Inflow == {0, 50000}

calculate_ni_supply ==
    /\ pc = "calculate_ni_supply"
    /\ \E n \in In_Net_Inflow :
           LET in2 == [inp EXCEPT !.Net_Inflow[i + 2] = n]
           IN  Step("calculate_cutback",
                    ni_supply(i, mv, in2.Net_Inflow), in2)

\* _calculate_cutback
cutback(ii, m, LOSA_dmd) ==
    [m EXCEPT !.Cut_back[ii + 2] = LOSA_dmd[ii + 2] - m.LOSA_Supply[ii + 2]]

calculate_cutback ==
    /\ pc = "calculate_cutback"
    /\ Step("calculate_demand_not_supplied",
            cutback(i, mv, inp.LOSA_dmd_SFWMM), inp)

\* a mutant of demand_not_supplied: a day without demand counts as a day
\* on which none of the demand was supplied
demand_not_supplied_ZeroFull(ii, m, LOSA_dmd) ==
    [m EXCEPT !.Dem_N_Sup[ii + 2] =
        IF LOSA_dmd[ii + 2] = 0 THEN 100
        ELSE (m.Cut_back[ii + 2] * 100) \div LOSA_dmd[ii + 2]]

\* _calculate_demand_not_supplied
demand_not_supplied(ii, m, LOSA_dmd) ==
    [m EXCEPT !.Dem_N_Sup[ii + 2] =
        IF LOSA_dmd[ii + 2] = 0 THEN 0
        ELSE (m.Cut_back[ii + 2] * 100) \div LOSA_dmd[ii + 2]]

calculate_demand_not_supplied ==
    /\ pc = "calculate_demand_not_supplied"
    /\ Step("calculate_zone_code",
            demand_not_supplied(i, mv, inp.LOSA_dmd_SFWMM), inp)

calculate_zone_code ==
    /\ pc = "calculate_zone_code"
    /\ \E z \in lo_Zone_Code :
           Step("generate_zone_column",
                [mv EXCEPT !.Zone_Code[i + 1] = z], inp)

generate_zone_column ==
    /\ pc = "generate_zone_column"
    /\ Step("calculate_decision_tree_variables",
            [mv EXCEPT !.LO_Zone[i + 1] = mv.Zone_Code[i + 1]], inp)

\* a mutant of BranchCode: the tens and the ones change places
BranchCode_Swapped(thousands, hundreds, tens, ones) ==
    thousands * 1000 + hundreds * 100 + ones * 10 + tens * 1

\* the sum of lines 249-254, 274-279 and 293-298
BranchCode(thousands, hundreds, tens, ones) ==
    thousands * 1000 + hundreds * 100 + tens * 10 + ones * 1

\* _calculate_decision_tree_variables: the sub-codes are results of
\* dec_tree_functions (not under src), sc names them; Zone_B_MetFcast is
\* the column _create_dectree_df copies from LONINO_Seasonal_Classes.
decision_tree_variables(ii, d, sc, Zone_B_MetFcast, rel) ==
    LET D_Branch == BranchCode(sc.D_Trib, sc.D_stage, sc.D_Seas, sc.D_MSeas)
        C_Branch == BranchCode(sc.C_Trib, sc.C_MetFcast, sc.C_Seas, sc.C_MSeas)
        B_Branch == BranchCode(sc.B_Trib, sc.B_Stage, Zone_B_MetFcast, sc.B_Seas)
    IN  [d EXCEPT !.Zone_D_Trib[ii] = sc.D_Trib,
                  !.Zone_D_stage[ii] = sc.D_stage,
                  !.Zone_D_Seas[ii] = sc.D_Seas,
                  !.Zone_D_MSeas[ii] = sc.D_MSeas,
                  !.Zone_D_Branch_Code[ii] = D_Branch,
                  !.Zone_D_Rel_Code[ii] = rel,
                  !.Zone_C_Trib[ii] = sc.C_Trib,
                  !.Zone_C_Seas[ii] = sc.C_Seas,
                  !.Zone_C_MSeas[ii] = sc.C_MSeas,
                  !.Zone_C_MetFcast[ii] = sc.C_MetFcast,
                  !.Zone_C_Branch_Code[ii] = C_Branch,
                  !.Zone_C_Rel_Code[ii] = rel,
                  !.Zone_B_Trib[ii] = sc.B_Trib,
                  !.Zone_B_Stage[ii] = sc.B_Stage,
                  !.Zone_B_Seas[ii] = sc.B_Seas,
                  !.Zone_B_Branch_Code[ii] = B_Branch,
                  !.Zone_B_Rel_Code[ii] = rel]

\* the sub-codes of a run
RunSubCodes ==
    [D_Trib |-> 1, D_stage |-> 2, D_Seas |-> 3, D_MSeas |-> 4,
     C_Trib |-> 2, C_MetFcast |-> 1, C_Seas |-> 3, C_MSeas |-> 4,
     B_Trib |-> 3, B_Stage |-> 1, B_Seas |-> 4]

In_LONINO_Seasonal == {2}
In_LONINO_MultiSeasonal == {3}

calculate_decision_tree_variables ==
    /\ pc = "calculate_decision_tree_variables"
    /\ \E sea \in In_LONINO_Seasonal, msea \in In_LONINO_MultiSeasonal :
          /\ inp' = [inp EXCEPT !.LONINO_Seasonal_Classes[i] = sea,
                                !.LONINO_MultiSeasonal_Classes[i] = msea]
          /\ dt' = decision_tree_variables(i, dt, RunSubCodes, sea, 0)
    /\ pc' = "calculate_release_levels"
    /\ UNCHANGED <<cfg, n_rows, i, mv, ap, pulse, err, call>>

\* lines 327-339 of _calculate_release_levels; lo_model.date[i] is row i,
\* and cs_flag is 0 or the years agree (startdate and the rows of a run
\* are days of one simulation)
release_levels_DayFlags(ii, m, startdate) ==
    IF ii >= 3
    THEN [m EXCEPT !.DayFlags[ii] =
            IF startdate.m = RowDate(startdate, ii).m
               /\ startdate.d = RowDate(startdate, ii).d
            THEN SimDay1 ELSE DateCode(RowDate(startdate, ii))]
    ELSE m

\* a mutant of release_levels_dh_7days: the lookback starts a day early, and
\* the index -1 is the last row of the array
release_levels_dh_7days_From5(ii, m) ==
    IF ii >= 5
    THEN [m EXCEPT !.dh_7days[ii + 1] =
            m.Lake_Stage[ii + 1]
                - m.Lake_Stage[PyIndex(ii - 6, Cardinality(DOMAIN m.Lake_Stage))]]
    ELSE m

\* lines 354-356
release_levels_dh_7days(ii, m) ==
    IF ii >= 6
    THEN [m EXCEPT !.dh_7days[ii + 1] = m.Lake_Stage[ii + 1] - m.Lake_Stage[ii - 6]]
    ELSE m

\* _calculate_release_levels with the results of lo_functions given
release_levels(ii, m, startdate, relslevel, plsday, level) ==
    LET m1 == [m EXCEPT !.DecTree_Relslevel[ii + 2] = relslevel]
        m2 == release_levels_DayFlags(ii, m1, startdate)
        m3 == [m2 EXCEPT !.PlsDay[ii + 2] = plsday,
                         !.Release_Level[ii + 2] = level]
    IN  release_levels_dh_7days(ii, m3)

\* lo_functions.PlsDay: the day of the pulse, 0 when no pulse runs
lo_PlsDay == {0, 1}

calculate_release_levels ==
    /\ pc = "calculate_release_levels"
    /\ \E p \in lo_PlsDay :
           Step("calculate_zone_codes",
                release_levels(i, mv, cfg.start, 0, p, 0), inp)

calculate_zone_codes ==
    /\ pc = "calculate_zone_codes"
    /\ Step("calculate_release_level_codes",
            [mv EXCEPT !.ZoneCodeminus1Code[i + 1] = 0,
                       !.ZoneCodeCode[i + 1] = 0,
                       !.Fraction_of_Zone_height[i + 1] = 0], inp)

calculate_release_level_codes ==
    /\ pc = "calculate_release_level_codes"
    /\ Step("calculate_outlet2ds_mult",
            [mv EXCEPT !.ReLevelCode_1[i + 2] = 0,
                       !.ReLevelCode_2[i + 2] = 0,
                       !.ReLevelCode_3_S80[i + 2] = 0], inp)

\* a multiplier array is read at i + 2 - PlsDay[i + 2]
MultIndex(ii, m) == ii + 2 - m.PlsDay[ii + 2]

calculate_outlet2ds_mult ==
    /\ pc = "calculate_outlet2ds_mult"
    /\ \/ /\ PyIndexOK(MultIndex(i, mv), n_rows)
          /\ Step("calculate_outlet2dsrs",
                  [mv EXCEPT !.Outlet2DS_Mult[i + 2] = 0,
                             !.Outlet2DS_Mult_2[i + 2] = 0], inp)
       \/ /\ ~PyIndexOK(MultIndex(i, mv), n_rows)
          /\ Raise("IndexError",
                   [mv EXCEPT !.Outlet2DS_Mult[i + 2] = 0])

\* a mutant of PulseRow: no wraparound
PulseRow_NoWrap(PlsDay_i2, len) == PlsDay_i2 - 1

\* the row of data.Pulses the six lookups read (lines 526-530 and alike)
PulseRow(PlsDay_i2, len) ==
    IF PlsDay_i2 - 1 >= 0 THEN PlsDay_i2 - 1 ELSE len - 1

\* the rows read by the three lookups of _calculate_outlet2dsrs
outlet2dsrs_PulseRows(ii, m, len) ==
    <<PulseRow(m.PlsDay[ii + 2], len), PulseRow(m.PlsDay[ii + 2], len),
      PulseRow(m.PlsDay[ii + 2], len)>>

\* the rows read by the three lookups of _calculate_outlet1usrs
outlet1usrs_PulseRows(ii, m, len) ==
    <<PulseRow(m.PlsDay[ii + 2], len), PulseRow(m.PlsDay[ii + 2], len),
      PulseRow(m.PlsDay[ii + 2], len)>>

\* lines 562-568 of _calculate_outlet2dsrs, after Outlet2DSRS is stored
outlet2usrg1(ii, m, C44RO, sum) ==
    [m EXCEPT !.Outlet2USRG1[ii + 2] = IF m.Outlet2DSRS[ii + 2] - C44RO[ii + 2] > 0
                                     THEN m.Outlet2DSRS[ii + 2] - C44RO[ii + 2] ELSE 0,
              !.Sum_Outlet2USRG1[ii + 2] = sum]

In_C44RO == {0}
In_C43RO == {0}

calculate_outlet2dsrs ==
    /\ pc = "calculate_outlet2dsrs"
    /\ \E ro \in In_C44RO :
           LET in2 == [inp EXCEPT !.C44RO[i + 2] = ro]
           IN  StepPulse("calculate_outlet2dsbs",
                         outlet2usrg1(i, [mv EXCEPT !.Outlet2DSRS[i + 2] = 0],
                                      in2.C44RO, 0), in2,
                         [pulse EXCEPT !.S80 = outlet2dsrs_PulseRows(i, mv, PulsesLen)])

calculate_outlet2dsbs ==
    /\ pc = "calculate_outlet2dsbs"
    /\ Step("calculate_outlet2usbk",
            [mv EXCEPT !.Outlet2DSBS[i + 2] = 0], inp)

\* _calculate_outlet2usbk with the results of lo_functions given
outlet2usbk(ii, m, C44RO, bk, bs, sum) ==
    [m EXCEPT !.Outlet2USBK[ii + 2] = bk,
              !.ROeast[ii + 2] = C44RO[ii + 2] - bk,
              !.Outlet2USBS[ii + 2] = bs,
              !.Sum_Outlet2USBK[ii + 2] = sum]

calculate_outlet2usbk ==
    /\ pc = "calculate_outlet2usbk"
    /\ Step("calculate_outlet2usrg_code",
            outlet2usbk(i, mv, inp.C44RO, 0, 0, 0), inp)

\* the else branch of _calculate_outlet2usrg_code and _calculate_outlet1usreg
\* (sim_type != 0): full is 7200 or 7800.  Between 8 ft and 18 ft the test
\* reads tp_lake_s[i] <= p1, names the function does not have.
\* Lake_Stage is in tenths of a foot.
SimTypeRelease(stage, full) ==
    IF stage >= 180 THEN [ok |-> TRUE, q |-> full]
    ELSE IF stage <= 80 THEN [ok |-> TRUE, q |-> 0]
    ELSE [ok |-> FALSE, q |-> 0]

\* the exception of the test: NameError when LOONE_Q is imported and
\* called, TypeError when the module runs as a script (tp_lake_s is then
\* the module's global, not a list)
SimTypeErrors == {"NameError", "TypeError"}

\* _calculate_outlet2usrg_code with the results of lo_functions given
outlet2usrg_code(ii, m, c, code, rg) ==
    LET m1 == [m EXCEPT !.Outlet2USRG_Code[ii + 2] = code]
        r  == SimTypeRelease(m.Lake_Stage[ii + 1], 7200)
    IN  IF c.sim_type = 0
        THEN [ok |-> TRUE, mv |-> [m1 EXCEPT !.Outlet2USRG[ii + 2] = rg]]
        ELSE IF r.ok
        THEN [ok |-> TRUE, mv |-> [m1 EXCEPT !.Outlet2USRG[ii + 2] = r.q]]
        ELSE [ok |-> FALSE, mv |-> m1]

calculate_outlet2usrg_code ==
    /\ pc = "calculate_outlet2usrg_code"
    /\ LET r == outlet2usrg_code(i, mv, cfg, 0, 0)
       IN  \/ /\ r.ok
              /\ Step("calculate_outlet2ds", r.mv, inp)
           \/ /\ ~r.ok
              /\ \E e \in SimTypeErrors :
                   Raise(e, r.mv)

calculate_outlet2ds ==
    /\ pc = "calculate_outlet2ds"
    /\ Step("calculate_relevel_code_3_s77",
            [mv EXCEPT !.Outlet2DS[i + 2] = 0], inp)

calculate_relevel_code_3_s77 ==
    /\ pc = "calculate_relevel_code_3_s77"
    /\ Step("calculate_outlet1us_mult",
            [mv EXCEPT !.ReLevelCode_3_S77[i + 2] = 0], inp)

calculate_outlet1us_mult ==
    /\ pc = "calculate_outlet1us_mult"
    /\ Step("calculate_outlet1us_mult_2",
            [mv EXCEPT !.Outlet1US_Mult[i + 2] = 0], inp)

calculate_outlet1us_mult_2 ==
    /\ pc = "calculate_outlet1us_mult_2"
    /\ \/ /\ PyIndexOK(MultIndex(i, mv), n_rows)
          /\ Step("calculate_outlet1usrs",
                  [mv EXCEPT !.Outlet1US_Mult_2[i + 2] = 0], inp)
       \/ /\ ~PyIndexOK(MultIndex(i, mv), n_rows)
          /\ Raise("IndexError", mv)

lo_Outlet1USRS == {0}
lo_Outlet1USBS == {0, 300}

calculate_outlet1usrs ==
    /\ pc = "calculate_outlet1usrs"
    /\ \E ro \in In_C43RO, q \in lo_Outlet1USRS :
           StepPulse("calculate_sum_outlet1usrs",
                     [mv EXCEPT !.Outlet1USRS[i + 2] = q],
                     [inp EXCEPT !.C43RO[i + 2] = ro],
                     [pulse EXCEPT !.S77 = outlet1usrs_PulseRows(i, mv, PulsesLen)])

calculate_sum_outlet1usrs ==
    /\ pc = "calculate_sum_outlet1usrs"
    /\ Step("calculate_outlet1usbk",
            [mv EXCEPT !.Sum_Outlet1USRS[i + 2] = 0], inp)

calculate_outlet1usbk ==
    /\ pc = "calculate_outlet1usbk"
    /\ Step("calculate_rowest",
            [mv EXCEPT !.Outlet1USBK[i + 2] = 0], inp)

\* _calculate_rowest
rowest(ii, m, C43RO) ==
    [m EXCEPT !.ROwest[ii + 2] = C43RO[ii + 2] - m.Outlet1USBK[ii + 2]]

calculate_rowest ==
    /\ pc = "calculate_rowest"
    /\ Step("calculate_outlet1dsbs", rowest(i, mv, inp.C43RO), inp)

calculate_outlet1dsbs ==
    /\ pc = "calculate_outlet1dsbs"
    /\ Step("calculate_outlet1usbs",
            [mv EXCEPT !.Outlet1DSBS[i + 2] = 0], inp)

\* a mutant of calculate_outlet1usbs: the Adaptive Protocol is passed over
calculate_outlet1usbs_SkipAP ==
    /\ pc = "calculate_outlet1usbs"
    /\ \E q \in lo_Outlet1USBS :
           Step("calculate_outlet1usbsap",
                [mv EXCEPT !.Outlet1USBS[i + 2] = q], inp)

calculate_outlet1usbs ==
    /\ pc = "calculate_outlet1usbs"
    /\ \E q \in lo_Outlet1USBS :
           Step("define_thc_class_normal_or_above",
                [mv EXCEPT !.Outlet1USBS[i + 2] = q], inp)

\* _define_thc_class_normal_or_above: lines 1044-1045 store again what
\* THC_Class stored
define_thc_class_normal_or_above(ii, n, a, c, m, tb, Choose_1) ==
    IF ii < n - 2 THEN THC_Class(ii, a, c, m, tb, Choose_1)
    ELSE [ap |-> a, err |-> "none"]

\* the entries of the tables THC_Class reads for day ii: date_range_5[ii],
\* df_WSMs.WSM1[ii + 1], targ_stg_df[ii], and the two columns given
APTables(startdate, ii, thc, est) ==
    [THC |-> thc, month |-> APDate(startdate, ii).m, WSM1 |-> 100,
     Targ_Stg |-> 110, Est |-> est,
     Late_Dry_Season |-> Late_Dry_Season(APDate(startdate, ii).m)]

In_Tributary_Condition == {3}

define_thc_class_normal_or_above_step ==
    /\ pc = "define_thc_class_normal_or_above"
    /\ \E thc \in In_Tributary_Condition, est \in {0, 1} :
       \E tb \in {APTables(cfg.start, i, thc, est)} :
         \E r \in {define_thc_class_normal_or_above(i, n_rows, ap, cfg, mv, tb,
                                                      choose_1)} :
             /\ inp' = [inp EXCEPT !.Tributary_Condition[i] = thc,
                                   !.Estuary_needs_water[i] = est]
             /\ ap' = r.ap
             /\ err' = r.err
             /\ pc' = IF r.err = "none" THEN "calculate_outlet1usbsap" ELSE "error"
    /\ UNCHANGED <<cfg, n_rows, i, mv, dt, pulse, call>>

\* lo_functions.Outlet1USBSAP and lo_functions.Outlet1USEWS choose between
\* their first two arguments (opt_adap_prot, outlet1_usews_switch)
calculate_outlet1usbsap ==
    /\ pc = "calculate_outlet1usbsap"
    /\ \E q \in {mv.Outlet1USBS[i + 2], ap.Post_Ap_Baseflow[i]} :
           Step("calculate_outlet1usews",
                [mv EXCEPT !.Outlet1USBSAP[i + 2] = q], inp)

calculate_outlet1usews ==
    /\ pc = "calculate_outlet1usews"
    /\ \E q \in {ap.Post_AP_EWS[i], 0} :
           Step("calculate_outlet1usreg",
                [mv EXCEPT !.Outlet1USEWS[i + 2] = q], inp)

\* _calculate_outlet1usreg with the result of lo_functions given
outlet1usreg(ii, m, c, reg) ==
    LET r == SimTypeRelease(m.Lake_Stage[ii + 1], 7800)
    IN  IF c.sim_type = 0
        THEN [ok |-> TRUE, mv |-> [m EXCEPT !.Outlet1USREG[ii + 2] = reg]]
        ELSE IF r.ok
        THEN [ok |-> TRUE, mv |-> [m EXCEPT !.Outlet1USREG[ii + 2] = r.q]]
        ELSE [ok |-> FALSE, mv |-> m]

\* in a run the release of S-308 raised before, for the same stage
calculate_outlet1usreg ==
    /\ pc = "calculate_outlet1usreg"
    /\ LET r == outlet1usreg(i, mv, cfg, mv.Outlet1USRS[i + 2] + mv.Outlet1USBSAP[i + 2])
       IN  /\ r.ok
           /\ Step("calculate_outlet1ds", r.mv, inp)

calculate_outlet1ds ==
    /\ pc = "calculate_outlet1ds"
    /\ Step("calculate_tot_reg_ew",
            [mv EXCEPT !.Outlet1DS[i + 2] = 0], inp)

\* 1.9835 ac-ft per cfs-day; volumes are in 1/10000 ac-ft
AcFtPerCfs == 19835

\* _calculate_tot_reg_ew
tot_reg_ew(ii, m) ==
    [m EXCEPT !.TotRegEW[ii + 2] =
        (m.Outlet1USREG[ii + 2] + m.Outlet2USRG[ii + 2]) * AcFtPerCfs]

calculate_tot_reg_ew ==
    /\ pc = "calculate_tot_reg_ew"
    /\ Step("calculate_choose_wca", tot_reg_ew(i, mv), inp)

\* config["max_cap_reg_wca"], config["multiplier_reg_wca"] and the two of
\* L8C51, as the run has them
max_cap_reg == 4000
multiplier_reg == 1

\* _calculate_choose_wca with the result of lo_functions given
choose_wca(ii, m, choose) ==
    [m EXCEPT !.Choose_WCA[ii + 2] = choose,
              !.RegWCA[ii + 2] = Min2(max_cap_reg, multiplier_reg * choose)]

\* _calculate_choose_l8c51 with the result of lo_functions given
choose_l8c51(ii, m, choose) ==
    [m EXCEPT !.Choose_L8C51[ii + 2] = choose,
              !.RegL8C51[ii + 2] = Min2(max_cap_reg, multiplier_reg * choose)]

\* _calculate_tot_reg_so
tot_reg_so(ii, m) ==
    [m EXCEPT !.TotRegSo[ii + 2] =
        (m.RegWCA[ii + 2] + m.RegL8C51[ii + 2]) * AcFtPerCfs]

calculate_choose_wca ==
    /\ pc = "calculate_choose_wca"
    /\ Step("calculate_choose_l8c51", choose_wca(i, mv, 0), inp)

calculate_choose_l8c51 ==
    /\ pc = "calculate_choose_l8c51"
    /\ Step("calculate_tot_reg_so", choose_l8c51(i, mv, 0), inp)

calculate_tot_reg_so ==
    /\ pc = "calculate_tot_reg_so"
    /\ Step("calculate_stage2ar_and_stage2marsh",
            tot_reg_so(i, mv), inp)

calculate_stage2ar_and_stage2marsh ==
    /\ pc = "calculate_stage2ar_and_stage2marsh"
    /\ Step("calculate_rf_and_et",
            [mv EXCEPT !.Stage2ar[i + 2] = 0, !.Stage2marsh[i + 2] = 0], inp)

\* data.RF_Vol and the result of lo_functions.ET
In_RF == {0}
lo_ET == {0}

calculate_rf_and_et ==
    /\ pc = "calculate_rf_and_et"
    /\ \E rf \in In_RF, et \in lo_ET :
           Step("calculate_wsa",
                [mv EXCEPT !.RF[i + 2] = rf, !.ET[i + 2] = et], inp)

calculate_wsa ==
    /\ pc = "calculate_wsa"
    /\ Step("calculate_dsto_and_storage",
            [mv EXCEPT !.Choose_WSA_1[i + 2] = 0, !.Choose_WSA_2[i + 2] = 0,
                       !.WSA_MIA[i + 2] = 0, !.WSA_NNR[i + 2] = 0], inp)

\* lo_functions.Storage is not under src: the new storage accumulates onto
\* the storage of the day before
lo_Storage(DayFlag, Storage_i, start_storage, Storage_i1, DSto_i2) ==
    Storage_i1 + DSto_i2

\* a mutant of dsto_and_storage: the first term is the net inflow
dsto_and_storage_NetInflow(ii, m, Net_Inflow, storage_deviation, start_storage) ==
    LET ds == Net_Inflow[ii + 2] + m.RF[ii + 2] - m.ET[ii + 2]
              + AcFtPerCfs * (m.Outlet2USBK[ii + 2] + m.Outlet1USBK[ii + 2]
                              + m.WSA_MIA[ii + 2] + m.WSA_NNR[ii + 2]
                              - m.Outlet1USEWS[ii + 2])
              - m.TotRegEW[ii + 2] - m.TotRegSo[ii + 2]
              + storage_deviation[ii + 2]
    IN  [m EXCEPT !.DSto[ii + 2] = ds,
                  !.Storage[ii + 2] =
                      lo_Storage(m.DayFlags[ii + 2], m.Storage[ii], start_storage,
                                 m.Storage[ii + 1], ds)]

\* _calculate_dsto_and_storage; Net_Inflow is not read (the parameter pairs
\* with the mutant above)
dsto_and_storage(ii, m, Net_Inflow, storage_deviation, start_storage) ==
    LET ds == m.NI_Supply[ii + 2] + m.RF[ii + 2] - m.ET[ii + 2]
              + AcFtPerCfs * (m.Outlet2USBK[ii + 2] + m.Outlet1USBK[ii + 2]
                              + m.WSA_MIA[ii + 2] + m.WSA_NNR[ii + 2]
                              - m.Outlet1USEWS[ii + 2])
              - m.TotRegEW[ii + 2] - m.TotRegSo[ii + 2]
              + storage_deviation[ii + 2]
    IN  [m EXCEPT !.DSto[ii + 2] = ds,
                  !.Storage[ii + 2] =
                      lo_Storage(m.DayFlags[ii + 2], m.Storage[ii], start_storage,
                                 m.Storage[ii + 1], ds)]

\* line 1853: LOONE_Q has no start_storage (no assignment, no parameter, no
\* global of the module), so the argument list raises NameError before
\* _calculate_dsto_and_storage is entered
calculate_dsto_and_storage ==
    /\ pc = "calculate_dsto_and_storage"
    /\ Raise("NameError", mv)

\* stg_sto_ar is not under src: a monotonic interpolation over a reference
\* curve, clamped to the nearest boundary row.  Stage in tenths of a foot,
\* storage in 1/10000 ac-ft.
StgStoCurve ==
    <<[stg |-> 50, sto |-> 0], [stg |-> 100, sto |-> 200000],
      [stg |-> 150, sto |-> 600000], [stg |-> 200, sto |-> 1400000]>>

\* the segment of the curve that holds v in column col
CurveSegment(v, col) ==
    CHOOSE k \in 1 .. (Len(StgStoCurve) - 1) :
        /\ StgStoCurve[k][col] <= v
        /\ (v <= StgStoCurve[k + 1][col])
        /\ \A j \in 1 .. (k - 1) : ~(v <= StgStoCurve[j + 1][col])

Interpolate(v, from, to) ==
    IF v <= StgStoCurve[1][from] THEN StgStoCurve[1][to]
    ELSE IF v >= StgStoCurve[Len(StgStoCurve)][from]
    THEN StgStoCurve[Len(StgStoCurve)][to]
    ELSE LET k == CurveSegment(v, from)
             a == StgStoCurve[k]
             b == StgStoCurve[k + 1]
         IN  a[to] + ((v - a[from]) * (b[to] - a[to])) \div (b[from] - a[from])

\* stg_sto_ar.stg2sto(x, 0) is the storage of stage x, stg2sto(x, 1) the
\* stage of storage x
stg2sto(x, flag) ==
    IF flag = 0 THEN Interpolate(x, "stg", "sto") ELSE Interpolate(x, "sto", "stg")

\* lo_functions.Lake_Stage is not under src: the reference stage in the
\* observed-replay mode, the Converter's stage otherwise
lo_Lake_Stage(Stage_i2, EOD_Stg, option_stage) ==
    IF option_stage = 1 THEN EOD_Stg ELSE Stage_i2

\* a mutant of lake_stage: the storage of the day before is converted
lake_stage_DayBefore(ii, m, EOD_Stg, c) ==
    [m EXCEPT !.Lake_Stage[ii + 2] =
        lo_Lake_Stage(stg2sto(m.Storage[ii + 1], 1), EOD_Stg[ii + 2], c.option_stage)]

\* a mutant of lake_stage: the Converter is asked for the other direction
lake_stage_Flag0(ii, m, EOD_Stg, c) ==
    [m EXCEPT !.Lake_Stage[ii + 2] =
        lo_Lake_Stage(stg2sto(m.Storage[ii + 2], 0), EOD_Stg[ii + 2], c.option_stage)]

\* _calculate_lake_stage
lake_stage(ii, m, EOD_Stg, c) ==
    [m EXCEPT !.Lake_Stage[ii + 2] =
        lo_Lake_Stage(stg2sto(m.Storage[ii + 2], 1), EOD_Stg[ii + 2], c.option_stage)]

\* the calls of the body of the daily loop, in the order of lines 1812-1855
LoopOrder ==
    <<"calculate_wsm_zone", "calculate_max_supply", "calculate_losa_supply",
      "calculate_ni_supply", "calculate_cutback",
      "calculate_demand_not_supplied", "calculate_zone_code",
      "generate_zone_column", "calculate_decision_tree_variables",
      "calculate_release_levels", "calculate_zone_codes",
      "calculate_release_level_codes", "calculate_outlet2ds_mult",
      "calculate_outlet2dsrs", "calculate_outlet2dsbs",
      "calculate_outlet2usbk", "calculate_outlet2usrg_code",
      "calculate_outlet2ds", "calculate_relevel_code_3_s77",
      "calculate_outlet1us_mult", "calculate_outlet1us_mult_2",
      "calculate_outlet1usrs", "calculate_sum_outlet1usrs",
      "calculate_outlet1usbk", "calculate_rowest", "calculate_outlet1dsbs",
      "calculate_outlet1usbs", "define_thc_class_normal_or_above",
      "calculate_outlet1usbsap", "calculate_outlet1usews",
      "calculate_outlet1usreg", "calculate_outlet1ds",
      "calculate_tot_reg_ew", "calculate_choose_wca",
      "calculate_choose_l8c51", "calculate_tot_reg_so",
      "calculate_stage2ar_and_stage2marsh", "calculate_rf_and_et",
      "calculate_wsa", "calculate_dsto_and_storage", "calculate_lake_stage",
      "update_lo_model">>

Next ==
    \/ initialize_model_variables_stage_levels_flags
    \/ calculate_initial_zone_code_and_lo_zone
    \/ calculate_wsm_zone
    \/ calculate_max_supply
    \/ calculate_losa_supply
    \/ calculate_ni_supply
    \/ calculate_cutback
    \/ calculate_demand_not_supplied
    \/ calculate_zone_code
    \/ generate_zone_column
    \/ calculate_decision_tree_variables
    \/ calculate_release_levels
    \/ calculate_zone_codes
    \/ calculate_release_level_codes
    \/ calculate_outlet2ds_mult
    \/ calculate_outlet2dsrs
    \/ calculate_outlet2dsbs
    \/ calculate_outlet2usbk
    \/ calculate_outlet2usrg_code
    \/ calculate_outlet2ds
    \/ calculate_relevel_code_3_s77
    \/ calculate_outlet1us_mult
    \/ calculate_outlet1us_mult_2
    \/ calculate_outlet1usrs
    \/ calculate_sum_outlet1usrs
    \/ calculate_outlet1usbk
    \/ calculate_rowest
    \/ calculate_outlet1dsbs
    \/ calculate_outlet1usbs
    \/ define_thc_class_normal_or_above_step
    \/ calculate_outlet1usbsap
    \/ calculate_outlet1usews
    \/ calculate_outlet1usreg
    \/ calculate_outlet1ds
    \/ calculate_tot_reg_ew
    \/ calculate_choose_wca
    \/ calculate_choose_l8c51
    \/ calculate_tot_reg_so
    \/ calculate_stage2ar_and_stage2marsh
    \/ calculate_rf_and_et
    \/ calculate_wsa
    \/ calculate_dsto_and_storage

Spec == Init /\ [][Next]_vars

-----------------------------------------------------------------------------
(* The functions one by one.  Each action applies one function of the      *)
(* source, for a day ii, to a store that is zero but for the entries the    *)
(* function reads, under the options it reads; call names the function.    *)

InitFn ==
    /\ cfg = DefaultConfig
    /\ n_rows = FnRows
    /\ pc = "function"
    /\ i = 0
    /\ mv = ZeroMV(n_rows)
    /\ ap = ZeroAP(n_rows)
    /\ dt = ZeroDT(n_rows)
    /\ inp = ZeroInp(n_rows)
    /\ pulse = NoPulseRows
    /\ err = "none"
    /\ call = "none"

\* the days of the loop: range(n_rows - 2)
LoopDays(n) == 0 .. (n - 3)

\* the options of the Adaptive Protocol applied: every combination under
\* the salinity policy 3 and the 10% column, every other value of the two
\* under the defaults
FnAPConfigs ==
    { WithAP(DefaultConfig, o) :
        o \in {o \in APOptionSets :
                 \/ o.OptSalFcast = 3 /\ o.LowChance = 10
                 \/ \A f \in APOptionNames \ {"OptSalFcast", "LowChance"} :
                        o[f] = DefaultConfig[f]} }

\* start dates that put the days of the loop in March and April, in May
\* and June, and in July
FnStarts ==
    {[y |-> 2009, m |-> 3, d |-> 31], [y |-> 2009, m |-> 5, d |-> 31],
     [y |-> 2009, m |-> 7, d |-> 10]}

In_Lake_Stage == {100, 108, 112}
\* the regulatory release and the baseflow of S-77, in cfs; the negative
\* values are drawn with the highest of the stages only
In_Outlet1USRS_BS ==
    {<<0, 0>>, <<500, 0>>, <<0, 300>>, <<0, 600>>, <<0, -100>>, <<-300, 300>>}

\* every zone of the water-shortage ladder is drawn on the days without a
\* release of S-77, the only days the supply can be other than 0
Fn_define_thc_class_normal_or_above ==
    /\ call = "none"
    /\ \E ii \in LoopDays(n_rows), c \in FnAPConfigs, sd \in FnStarts,
          stg \in In_Lake_Stage, z \in {1, 3, 4, 7}, thc \in {1, 3},
          est \in {0, 1} :
         \E q \in {p \in In_Outlet1USRS_BS :
                    (p[1] >= 0 /\ p[2] >= 0) \/ stg = 112} :
         \E wz \in {w \in 0 .. 4 : w \in {0, 2} \/ q = <<0, 0>>} :
         \E c2 \in {[c EXCEPT !.start = sd]},
            m2 \in {[mv EXCEPT !.Lake_Stage[ii + 1] = stg,
                               !.Zone_Code[ii + 1] = z,
                               !.Outlet1USRS[ii + 2] = q[1],
                               !.Outlet1USBS[ii + 2] = q[2],
                               !.WSM_Zone[ii + 2] = wz]},
            tb \in {APTables(sd, ii, thc, est)} :
           \E r \in {define_thc_class_normal_or_above(ii, n_rows, ap, c2, m2,
                                                        tb, choose_1)} :
             /\ cfg' = c2
             /\ i' = ii
             /\ mv' = m2
             /\ inp' = [inp EXCEPT !.Tributary_Condition[ii] = thc,
                                   !.Estuary_needs_water[ii] = est]
             /\ ap' = r.ap
             /\ err' = r.err
    /\ call' = "define_thc_class_normal_or_above"
    /\ UNCHANGED <<n_rows, pc, dt, pulse>>

\* the sub-codes: every result of dec_tree_functions is a digit
SubCodes == 0 .. 9

\* the sub-codes of zone z set to d, those of the other zones as in a run
SubCodesOf(z, d) ==
    IF z = "D"
    THEN [RunSubCodes EXCEPT !.D_Trib = d[1], !.D_stage = d[2],
                             !.D_Seas = d[3], !.D_MSeas = d[4]]
    ELSE IF z = "C"
    THEN [RunSubCodes EXCEPT !.C_Trib = d[1], !.C_MetFcast = d[2],
                             !.C_Seas = d[3], !.C_MSeas = d[4]]
    ELSE [RunSubCodes EXCEPT !.B_Trib = d[1], !.B_Stage = d[2], !.B_Seas = d[4]]

\* for zone B the third digit is LONINO_Seasonal_Classes[ii]
Fn_calculate_decision_tree_variables ==
    /\ call = "none"
    /\ \E ii \in LoopDays(n_rows), z \in {"D", "C", "B"},
          d \in [1 .. 4 -> SubCodes], msea \in In_LONINO_MultiSeasonal :
         \E sea \in (IF z = "B" THEN {d[3]} ELSE In_LONINO_Seasonal) :
           /\ i' = ii
           /\ inp' = [inp EXCEPT !.LONINO_Seasonal_Classes[ii] = sea,
                                 !.LONINO_MultiSeasonal_Classes[ii] = msea]
           /\ dt' = decision_tree_variables(ii, dt, SubCodesOf(z, d), sea, 0)
    /\ call' = "calculate_decision_tree_variables"
    /\ UNCHANGED <<cfg, n_rows, pc, mv, ap, pulse, err>>

\* PlsDay[ii + 2]: 0 when no pulse runs, else the day of the pulse
In_PlsDay == 0 .. PulsesLen

Fn_calculate_outlet2dsrs ==
    /\ call = "none"
    /\ \E ii \in LoopDays(n_rows), p \in In_PlsDay, q \in {0, 1000},
          ro \in {0, 400, 2000} :
         \E m2 \in {[mv EXCEPT !.PlsDay[ii + 2] = p]},
            in2 \in {[inp EXCEPT !.C44RO[ii + 2] = ro]} :
           /\ i' = ii
           /\ inp' = in2
           /\ pulse' = [pulse EXCEPT !.S80 = outlet2dsrs_PulseRows(ii, m2, PulsesLen)]
           /\ mv' = outlet2usrg1(ii, [m2 EXCEPT !.Outlet2DSRS[ii + 2] = q],
                                 in2.C44RO, 0)
    /\ call' = "calculate_outlet2dsrs"
    /\ UNCHANGED <<cfg, n_rows, pc, ap, dt, err>>

Fn_calculate_outlet1usrs ==
    /\ call = "none"
    /\ \E ii \in LoopDays(n_rows), p \in In_PlsDay, q \in {0, 1000} :
         \E m2 \in {[mv EXCEPT !.PlsDay[ii + 2] = p]} :
           /\ i' = ii
           /\ pulse' = [pulse EXCEPT !.S77 = outlet1usrs_PulseRows(ii, m2, PulsesLen)]
           /\ mv' = [m2 EXCEPT !.Outlet1USRS[ii + 2] = q]
    /\ call' = "calculate_outlet1usrs"
    /\ UNCHANGED <<cfg, n_rows, pc, ap, dt, inp, err>>

\* Storage[ii + 1], in 1/10000 ac-ft
Fn_Storage == {0, 300000}

\* _calculate_ni_supply, _calculate_tot_reg_ew, _calculate_tot_reg_so and
\* _calculate_dsto_and_storage in the order of the loop; the steps between
\* them write the other terms of the mass balance of day ii + 2 (volumes in
\* 1/10000 ac-ft, flows in cfs)
Fn_calculate_dsto_and_storage ==
    /\ call = "none"
    /\ \E ii \in LoopDays(n_rows), ni \in {0, 50000}, ls \in {0, 10000},
          rf \in {0, 20000}, et \in {0, 15000}, bk \in {0, 100}, wsa \in {0, 10},
          ews \in {0, 300}, reg \in {0, 500}, wca \in {0, 200},
          dev \in {0, -5000}, sto \in Fn_Storage,
          ss \in {300000} :
         \E in2 \in {[inp EXCEPT !.Net_Inflow[ii + 2] = ni,
                                 !.storage_deviation[ii + 2] = dev]} :
         \E m1 \in {ni_supply(ii, [mv EXCEPT !.LOSA_Supply[ii + 2] = ls,
                                             !.Storage[ii + 1] = sto],
                              in2.Net_Inflow)} :
         \E m2 \in {tot_reg_ew(ii, [m1 EXCEPT !.Outlet2USBK[ii + 2] = bk,
                                              !.Outlet1USBK[ii + 2] = bk \div 2,
                                              !.Outlet1USEWS[ii + 2] = ews,
                                              !.Outlet1USREG[ii + 2] = reg,
                                              !.Outlet2USRG[ii + 2] = reg \div 5])} :
         \E m3 \in {tot_reg_so(ii, choose_l8c51(ii, choose_wca(ii, m2, wca), 0))} :
         \E m4 \in {[m3 EXCEPT !.RF[ii + 2] = rf, !.ET[ii + 2] = et,
                               !.WSA_MIA[ii + 2] = wsa, !.WSA_NNR[ii + 2] = wsa * 2]} :
           /\ i' = ii
           /\ inp' = in2
           /\ mv' = dsto_and_storage(ii, m4, in2.Net_Inflow,
                                     in2.storage_deviation, ss)
    /\ call' = "calculate_dsto_and_storage"
    /\ UNCHANGED <<cfg, n_rows, pc, ap, dt, pulse, err>>

\* storages below, on and off the rows of the curve and above it
Fn_calculate_lake_stage ==
    /\ call = "none"
    /\ \E ii \in LoopDays(n_rows), sto1 \in Fn_Storage,
          sto \in {-10000, 0, 80000, 81234, 200000, 600001, 1400000, 2000000},
          eod \in {95, 131}, os \in {0, 1} :
         \E c2 \in {[cfg EXCEPT !.option_stage = os]},
            in2 \in {[inp EXCEPT !.EOD_Stg[ii + 2] = eod]} :
           /\ i' = ii
           /\ cfg' = c2
           /\ inp' = in2
           /\ mv' = lake_stage(ii, [mv EXCEPT !.Storage[ii + 2] = sto,
                                              !.Storage[ii + 1] = sto1],
                               in2.EOD_Stg, c2)
    /\ call' = "calculate_lake_stage"
    /\ UNCHANGED <<n_rows, pc, ap, dt, pulse, err>>

\* the columns _update_lo_model adds to lo_model, each with the array it
\* is set to
OutColumns ==
    [Cutback |-> "Cut_back", Stage |-> "Lake_Stage", Storage |-> "Storage",
     S77_Q |-> "Outlet1USREG", S308_Q |-> "Outlet2USRG",
     S77EW |-> "Outlet1USEWS", TotRegEW |-> "TotRegEW",
     TotRegSo |-> "TotRegSo"]

\* _update_lo_model: lo_model[column] = array, the other columns are kept
update_lo_model(lo_model, m) ==
    [f \in (DOMAIN lo_model) \cup (DOMAIN OutColumns) |->
        IF f \in DOMAIN OutColumns THEN m[OutColumns[f]] ELSE lo_model[f]]

\* _calculate_cutback, _calculate_demand_not_supplied and, the steps between
\* them having written the other arrays of day ii + 2, _update_lo_model
Fn_update_lo_model ==
    /\ call = "none"
    /\ \E ii \in LoopDays(n_rows), d \in In_LOSA_dmd, ls \in {5000, 10000},
          stg \in In_Lake_Stage, sto \in Fn_Storage, q \in {0, 500},
          ews \in {0, 300} :
         \E in2 \in {[inp EXCEPT !.LOSA_dmd_SFWMM[ii + 2] = d]} :
         \E m1 \in {demand_not_supplied(ii,
                        cutback(ii, [mv EXCEPT !.LOSA_Supply[ii + 2] = ls],
                                in2.LOSA_dmd_SFWMM),
                        in2.LOSA_dmd_SFWMM)} :
         \E m2 \in {[m1 EXCEPT !.Lake_Stage[ii + 2] = stg,
                               !.Storage[ii + 2] = sto,
                               !.Outlet1USREG[ii + 2] = q,
                               !.Outlet2USRG[ii + 2] = q \div 5,
                               !.Outlet1USEWS[ii + 2] = ews]} :
           /\ i' = ii
           /\ mv' = m2
           /\ inp' = update_lo_model(in2, m2)
    /\ call' = "update_lo_model"
    /\ UNCHANGED <<cfg, n_rows, pc, ap, dt, pulse, err>>

\* lo_functions.Zone_Code is not under src; the specification describes a
\* ladder over the thresholds that gives an ordinal code.  The ladder runs
\* from the highest threshold to the lowest and the code is the number of
\* rungs from the first one the stage is above down to the bottom, 0 below
\* every threshold.  The side a stage equal to a threshold falls on is left
\* open: incl = 1 counts it as above the threshold, incl = 0 as below.
Zone_Code_TopDown(Stage, A, B, C, D3, D2, D1, D0, WSM1, incl) ==
    LET thr == <<A, B, C, D3, D2, D1, D0, WSM1>>
        hit == {k \in 1 .. 8 :
                  Stage > thr[k] \/ (incl = 1 /\ Stage = thr[k])}
    IN  IF hit = {} THEN 0
        ELSE CHOOSE k \in hit : \A j \in hit : k <= j

Zone_Code(Stage, A, B, C, D3, D2, D1, D0, WSM1, incl) ==
    LET thr == <<A, B, C, D3, D2, D1, D0, WSM1>>
        hit == {k \in 1 .. 8 :
                  Stage > thr[k] \/ (incl = 1 /\ Stage = thr[k])}
    IN  IF hit = {} THEN 0
        ELSE 9 - (CHOOSE k \in hit : \A j \in hit : k <= j)

\* _calculate_zone_code for the days 0 and 1: Zone_Code[i + 1] is the code
\* of Lake_Stage[i + 1] under the thresholds of row i + 1 of df_WSMs
Fn_calculate_zone_code ==
    /\ call = "none"
    /\ \E s1 \in {95, 105, 112, 150, 170, 180},
          s2 \in {95, 105, 112, 150, 170, 180}, incl \in {0, 1} :
       \E w1 \in {[A |-> 170, B |-> 165, C |-> 155, D3 |-> 145, D2 |-> 135,
                   D1 |-> 125, D0 |-> 115, WSM1 |-> 105],
                  [A |-> 175, B |-> 160, C |-> 150, D3 |-> 150, D2 |-> 140,
                   D1 |-> 130, D0 |-> 110, WSM1 |-> 100]},
          w2 \in {[A |-> 170, B |-> 165, C |-> 155, D3 |-> 145, D2 |-> 135,
                   D1 |-> 125, D0 |-> 115, WSM1 |-> 105],
                  [A |-> 175, B |-> 160, C |-> 150, D3 |-> 150, D2 |-> 140,
                   D1 |-> 130, D0 |-> 110, WSM1 |-> 100]} :
       \E df_WSMs \in {[r \in 0 .. (n_rows - 1) |->
                           IF r = 1 THEN w1 ELSE w2]} :
         /\ i' = 1
         /\ inp' = [f \in (DOMAIN inp) \cup {"df_WSMs"} |->
                      IF f = "df_WSMs" THEN df_WSMs ELSE inp[f]]
         /\ mv' = [mv EXCEPT
                     !.Lake_Stage[1] = s1,
                     !.Lake_Stage[2] = s2,
                     !.Zone_Code[1] =
                         Zone_Code(s1, df_WSMs[1].A, df_WSMs[1].B,
                                   df_WSMs[1].C, df_WSMs[1].D3,
                                   df_WSMs[1].D2, df_WSMs[1].D1,
                                   df_WSMs[1].D0, df_WSMs[1].WSM1, incl),
                     !.Zone_Code[2] =
                         Zone_Code(s2, df_WSMs[2].A, df_WSMs[2].B,
                                   df_WSMs[2].C, df_WSMs[2].D3,
                                   df_WSMs[2].D2, df_WSMs[2].D1,
                                   df_WSMs[2].D0, df_WSMs[2].WSM1, incl)]
    /\ call' = "calculate_zone_code"
    /\ UNCHANGED <<cfg, n_rows, pc, ap, dt, pulse, err>>

\* _set_starting_storage
set_starting_storage(m, start_storage) ==
    [m EXCEPT !.Storage[0] = start_storage, !.Storage[1] = start_storage]

\* the start of a run that defines start_storage as the Converter's storage
\* of the beginning stage, followed by a day 0 that leaves the storage as
\* it was and by _calculate_lake_stage for that day
Fn_set_starting_storage ==
    /\ call = "none"
    /\ \E x \in {40, 50, 70, 100, 123, 150, 199, 200, 210} :
       \E c2 \in {[cfg EXCEPT !.beg_stage_cs = x]} :
       \E m1 \in {set_starting_storage(initialize_stage_levels(mv, c2),
                                       stg2sto(x, 0))} :
         /\ i' = 0
         /\ cfg' = c2
         /\ mv' = lake_stage(0, [m1 EXCEPT !.Storage[2] = m1.Storage[1]],
                             inp.EOD_Stg, c2)
    /\ call' = "set_starting_storage"
    /\ UNCHANGED <<n_rows, pc, ap, dt, inp, pulse, err>>

\* a mutant of Fn_to_csv: the table is written after any iteration
Fn_to_csv_AnyDay ==
    /\ call = "update_lo_model"
    /\ err = "none"
    /\ inp' = [f \in (DOMAIN inp) \cup {"LOONE_Q_Outputs.csv"} |->
                 IF f = "LOONE_Q_Outputs.csv" THEN inp ELSE inp[f]]
    /\ call' = "to_csv"
    /\ UNCHANGED <<cfg, n_rows, pc, i, mv, ap, dt, pulse, err>>

\* the end of LOONE_Q: once the last call of the last iteration of
\* 'for i in range(n_rows - 2)' has returned, lo_model is written to
\* LOONE_Q_Outputs.csv (line 1860)
Fn_to_csv ==
    /\ call = "update_lo_model"
    /\ err = "none"
    /\ i = n_rows - 3
    /\ inp' = [f \in (DOMAIN inp) \cup {"LOONE_Q_Outputs.csv"} |->
                 IF f = "LOONE_Q_Outputs.csv" THEN inp ELSE inp[f]]
    /\ call' = "to_csv"
    /\ UNCHANGED <<cfg, n_rows, pc, i, mv, ap, dt, pulse, err>>

NextFn ==
    \/ Fn_update_lo_model
    \/ Fn_to_csv
    \/ Fn_set_starting_storage
    \/ Fn_calculate_zone_code
    \/ Fn_define_thc_class_normal_or_above
    \/ Fn_calculate_decision_tree_variables
    \/ Fn_calculate_outlet2dsrs
    \/ Fn_calculate_outlet1usrs
    \/ Fn_calculate_dsto_and_storage
    \/ Fn_calculate_lake_stage

SpecFn == InitFn /\ [][NextFn]_vars

-----------------------------------------------------------------------------
(* The days of the loop over stores of every length.  A store of n_rows    *)
(* rows is that of a horizon of n_rows - 1 days; the function applied is    *)
(* the one that looks back seven days.                                       *)

InitLoop ==
    /\ cfg = DefaultConfig
    /\ n_rows \in 2 .. MaxRows
    /\ pc = "function"
    /\ i = 0
    /\ mv = ZeroMV(n_rows)
    /\ ap = ZeroAP(n_rows)
    /\ dt = ZeroDT(n_rows)
    /\ inp = ZeroInp(n_rows)
    /\ pulse = NoPulseRows
    /\ err = "none"
    /\ call = "none"

\* _calculate_release_levels on day ii, the stage of row ii + 1 and that of
\* the other rows given
Fn_calculate_release_levels ==
    /\ call = "none"
    /\ \E ii \in LoopDays(n_rows), p \in lo_PlsDay,
          s1 \in In_Lake_Stage, s0 \in In_Lake_Stage :
         /\ i' = ii
         /\ mv' = release_levels(
                      ii,
                      [mv EXCEPT !.Lake_Stage =
                          [r \in DOMAIN @ |-> IF r = ii + 1 THEN s1 ELSE s0]],
                      cfg.start, 0, p, 0)
    /\ call' = "calculate_release_levels"
    /\ UNCHANGED <<cfg, n_rows, pc, ap, dt, inp, pulse, err>>

NextLoop ==
    \/ Fn_calculate_release_levels

SpecLoop == InitLoop /\ [][NextLoop]_vars

-----------------------------------------------------------------------------
(* Properties.                                                              *)

\* the rule chain was entered for day i / and ran to its end
APRan == call = "define_thc_class_normal_or_above" /\ i < n_rows - 2
APDone == APRan /\ err = "none"

\* the rules THC_Class evaluates after n30d_mavg
LaterRules ==
    {"n30davgForecast", "LORS08_bf_rel", "LDS_LC6_1", "S_O", "All_4", "Sabf",
     "Swbf", "Swbu", "All_4andStage", "All_4andStagein", "P_AP_BF_Stg",
     "Logic_test_1", "Post_Ap_Baseflow", "S77RSplusPreAPS77bsf",
     "AndEstNeedsLakeWater", "AndLowChance61stagelessth11", "ATHCnora",
     "Choose_PAPEWS_1", "Choose_PAPEWS_2", "Post_AP_EWS",
     "Post_AP_Baseflow_EWS_cfs"}

(* C1, as stated: on every day the chain ran, under every setting of the   *)
(* options, LORS08_bf_rel[i] false implies All_4[i] false and              *)
(* Logic_test_1[i] false (the baseflow is not the unrestricted S77BS_AP).  *)
C1_AsStated ==
    (APDone /\ ap.LORS08_bf_rel[i] = 0)
        => (ap.All_4[i] = 0 /\ ap.Logic_test_1[i] = 0)

(* C1: on every day the chain ran, LORS08_bf_rel[i] false implies All_4[i] *)
(* false under every setting of the options, and implies Logic_test_1[i]   *)
(* false and Post_Ap_Baseflow[i] = 0 when Opt_NoAP_above_BF_SB is 0; with   *)
(* the option different from 0 Logic_test_1[i] is P_AP_BF_Stg[i], which     *)
(* does not depend on the gate.                                             *)
C1_GatingInvariant ==
    (APDone /\ ap.LORS08_bf_rel[i] = 0)
        => /\ ap.All_4[i] = 0
           /\ cfg.Opt_NoAP_above_BF_SB = 0
                => (ap.Logic_test_1[i] = 0 /\ ap.Post_Ap_Baseflow[i] = 0)
           /\ cfg.Opt_NoAP_above_BF_SB # 0
                => ap.Logic_test_1[i] = ap.P_AP_BF_Stg[i]

\* the gate is false on a day with baseflow, in the zones above the
\* baseflow sub-band, under the option 0
C1_Witness ==
    /\ APDone
    /\ ap.LORS08_bf_rel[i] = 0
    /\ cfg.Opt_NoAP_above_BF_SB = 0
    /\ ap.S77BS_AP[i] > 0
    /\ ap.P_AP_BF_Stg[i] = 1

(* C4: under OptSalFcast 1 or 2 the chain ends in an error on the day it   *)
(* is entered, Forecast_D_Sal[i] and n30d_mavg[i] hold no NaN, and no       *)
(* later rule of the day is evaluated (their entries keep the initial 0).  *)
C4_UnimplementedPoliciesRaise ==
    (APRan /\ cfg.OptSalFcast \in {1, 2})
        => /\ err # "none"
           /\ ap.Forecast_D_Sal[i] # NaN
           /\ ap.n30d_mavg[i] # NaN
           /\ \A f \in LaterRules : ap[f][i] = 0

\* the chain was entered under policy 2 and ended in the error of the stub
C4_Witness ==
    /\ APRan
    /\ cfg.OptSalFcast = 2
    /\ err = "UnboundLocalError"
    /\ ap.S77RS_Pre_AP_S77_Baseflow[i] > 0

C11_PostApEwsValue ==
    (APDone /\ mv.WSM_Zone[i + 2] \in 0 .. 4)
        => ap.Post_AP_EWS[i] =
             IF ap.ATHCnora[i] # 1 THEN 0
             ELSE IF mv.WSM_Zone[i + 2] = 0 THEN cfg.CalEst_ews
             ELSE LET APCB == <<cfg.APCB1, cfg.APCB2, cfg.APCB3, cfg.APCB4>>
                      base == <<0, cfg.CalEst_ews, 300>>
                  IN  ((100 - APCB[mv.WSM_Zone[i + 2]])
                        * base[cfg.Opt_CEews_LOWSM + 1]) \div 100

\* the gate holds in WSM zone 2 under the option 1: 60% of CalEst_ews
C11_Witness ==
    /\ APDone
    /\ ap.ATHCnora[i] = 1
    /\ mv.WSM_Zone[i + 2] = 2
    /\ cfg.Opt_CEews_LOWSM = 1
    /\ ap.Post_AP_EWS[i] = 180

\* the mass balance of day i + 2 with first term t
MassBalance(t) ==
    t + mv.RF[i + 2] - mv.ET[i + 2]
    + AcFtPerCfs * (mv.Outlet2USBK[i + 2] + mv.Outlet1USBK[i + 2]
                    + mv.WSA_MIA[i + 2] + mv.WSA_NNR[i + 2]
                    - mv.Outlet1USEWS[i + 2])
    - mv.TotRegEW[i + 2] - mv.TotRegSo[i + 2] + inp.storage_deviation[i + 2]

(* C2, as stated: DSto[i + 2] is the mass balance whose first term is the  *)
(* net inflow of the day, Net_Inflow[i + 2].                                *)
C2_AsStated ==
    call = "calculate_dsto_and_storage"
        => mv.DSto[i + 2] = MassBalance(inp.Net_Inflow[i + 2])

(* C2: DSto[i + 2] = NI_Supply + RF - ET + 1.9835 * (Outlet2USBK +          *)
(* Outlet1USBK + WSA_MIA + WSA_NNR - Outlet1USEWS) - TotRegEW - TotRegSo +  *)
(* storage deviation, all of row i + 2, where the first term NI_Supply is   *)
(* the net inflow of the day less the LOSA supply of the day.               *)
C2_MassBalance ==
    call = "calculate_dsto_and_storage"
        => /\ mv.NI_Supply[i + 2] = inp.Net_Inflow[i + 2] - mv.LOSA_Supply[i + 2]
           /\ mv.DSto[i + 2] =
                MassBalance(inp.Net_Inflow[i + 2] - mv.LOSA_Supply[i + 2])

\* a day with supply, releases, backpumping and a storage deviation
C2_Witness ==
    /\ call = "calculate_dsto_and_storage"
    /\ mv.LOSA_Supply[i + 2] > 0
    /\ inp.Net_Inflow[i + 2] > 0
    /\ mv.TotRegEW[i + 2] > 0
    /\ mv.TotRegSo[i + 2] > 0
    /\ mv.Outlet1USEWS[i + 2] > 0
    /\ mv.Outlet2USBK[i + 2] > 0
    /\ inp.storage_deviation[i + 2] # 0
    /\ mv.DSto[i + 2] # 0

(* C3: after _calculate_lake_stage, with the observed-replay mode off      *)
(* Lake_Stage[i + 2] is the Converter's stage of Storage[i + 2]; with the   *)
(* mode on it is the reference stage of row i + 2, whatever the storage.    *)
C3_StageUpdate ==
    call = "calculate_lake_stage"
        => /\ cfg.option_stage = 0
                => mv.Lake_Stage[i + 2] = stg2sto(mv.Storage[i + 2], 1)
           /\ cfg.option_stage = 1
                => mv.Lake_Stage[i + 2] = inp.EOD_Stg[i + 2]

\* the mode is off and the stage is that of a storage between two rows of
\* the curve, not that of the day before
C3_Witness ==
    /\ call = "calculate_lake_stage"
    /\ cfg.option_stage = 0
    /\ mv.Storage[i + 2] = 81234
    /\ mv.Lake_Stage[i + 2] = 70
    /\ mv.Storage[i + 1] # mv.Storage[i + 2]

\* the mode is on and the reference stage is not the stage of the storage
C3_WitnessReplay ==
    /\ call = "calculate_lake_stage"
    /\ cfg.option_stage = 1
    /\ mv.Lake_Stage[i + 2] = inp.EOD_Stg[i + 2]
    /\ mv.Lake_Stage[i + 2] # stg2sto(mv.Storage[i + 2], 1)

(* C6, as stated: the branch code of each of the zones D, C and B is       *)
(* 1000 * tributary + 100 * (stage or met-forecast) + 10 * seasonal +       *)
(* 1 * multi-seasonal; for zone B the seasonal code is Zone_B_Seas[i] or    *)
(* the seasonal class itself, the multi-seasonal class that of the input.   *)
C6_AsStated ==
    call = "calculate_decision_tree_variables"
        => /\ dt.Zone_D_Branch_Code[i] =
                1000 * dt.Zone_D_Trib[i] + 100 * dt.Zone_D_stage[i]
                + 10 * dt.Zone_D_Seas[i] + dt.Zone_D_MSeas[i]
           /\ dt.Zone_C_Branch_Code[i] =
                1000 * dt.Zone_C_Trib[i] + 100 * dt.Zone_C_MetFcast[i]
                + 10 * dt.Zone_C_Seas[i] + dt.Zone_C_MSeas[i]
           /\ \E tens \in {dt.Zone_B_Seas[i], inp.LONINO_Seasonal_Classes[i]} :
                dt.Zone_B_Branch_Code[i] =
                    1000 * dt.Zone_B_Trib[i] + 100 * dt.Zone_B_Stage[i]
                    + 10 * tens + inp.LONINO_MultiSeasonal_Classes[i]

(* C6: for the zones D and C the branch code is 1000 * tributary +         *)
(* 100 * (stage for D, met-forecast for C) + 10 * seasonal + 1 * multi-     *)
(* seasonal; for zone B it is 1000 * tributary + 100 * stage + 10 * the     *)
(* seasonal class of the day (Zone_B_MetFcast) + 1 * Zone_B_Seas, with no   *)
(* multi-seasonal term.                                                     *)
C6_BranchCodes ==
    call = "calculate_decision_tree_variables"
        => /\ dt.Zone_D_Branch_Code[i] =
                1000 * dt.Zone_D_Trib[i] + 100 * dt.Zone_D_stage[i]
                + 10 * dt.Zone_D_Seas[i] + dt.Zone_D_MSeas[i]
           /\ dt.Zone_C_Branch_Code[i] =
                1000 * dt.Zone_C_Trib[i] + 100 * dt.Zone_C_MetFcast[i]
                + 10 * dt.Zone_C_Seas[i] + dt.Zone_C_MSeas[i]
           /\ dt.Zone_B_Branch_Code[i] =
                1000 * dt.Zone_B_Trib[i] + 100 * dt.Zone_B_Stage[i]
                + 10 * inp.LONINO_Seasonal_Classes[i] + dt.Zone_B_Seas[i]

\* zone B with four different digits, the largest of them 9
C6_Witness ==
    /\ call = "calculate_decision_tree_variables"
    /\ dt.Zone_B_Branch_Code[i] = 9047
    /\ dt.Zone_B_Seas[i] = 7
    /\ inp.LONINO_Seasonal_Classes[i] = 4
    /\ dt.Zone_D_Branch_Code[i] = 1234

(* C7: each of the six lookups of the pulse table reads the row            *)
(* PlsDay[i + 2] - 1 when that is >= 0 and the last row, len(Pulses) - 1,   *)
(* when it is negative; the row is a row of the table and no error is       *)
(* raised.                                                                  *)
C7_PulseRowWraps ==
    \A col \in {"S80", "S77"} :
        (call = (IF col = "S80" THEN "calculate_outlet2dsrs"
                                ELSE "calculate_outlet1usrs"))
            => \A k \in 1 .. 3 :
                 /\ pulse[col][k] =
                        IF mv.PlsDay[i + 2] - 1 >= 0 THEN mv.PlsDay[i + 2] - 1
                        ELSE PulsesLen - 1
                 /\ pulse[col][k] \in 0 .. (PulsesLen - 1)
                 /\ err = "none"

\* a request of -1 read the last row, for the S-77 columns
C7_Witness ==
    /\ call = "calculate_outlet1usrs"
    /\ mv.PlsDay[i + 2] - 1 = -1
    /\ pulse.S77 = <<PulsesLen - 1, PulsesLen - 1, PulsesLen - 1>>

\* the run has ended
RunEnded == pc \in {"error", "done"}

\* the days of the horizon are the entries 0 .. n_rows - 2 of the Adaptive
\* Protocol arrays (date_range_5); the last two of them
LastTwoDays == {k \in 0 .. (n_rows - 2) : k >= n_rows - 3}

(* C5, as stated: the entries of the Adaptive Protocol arrays for the last  *)
(* two days of the horizon keep their default 0 in every state of the run,  *)
(* and when the run has ended under the default options the chain has been  *)
(* executed for every earlier day (it stored the stage of the day, which is *)
(* not 0).                                                                  *)
C5_AsStated ==
    /\ \A k \in LastTwoDays : \A f \in APFields : ap[f][k] = 0
    /\ (RunEnded /\ cfg = DefaultConfig)
          => \A k \in 0 .. (n_rows - 4) : ap.Lake_O_Stage_AP[k] # 0

\* the rows of the run that are initialised: 0 and 1, once lines 1692-1695
\* are executed
InitialisedRows ==
    IF pc = "initialize_model_variables_stage_levels_flags" THEN {} ELSE {0, 1}

(* C8, as stated: in every state of the run, for every initialised row      *)
(* Lake_Stage[r] is the Converter's stage of Storage[r] or Storage[r] is    *)
(* the Converter's storage of Lake_Stage[r].                                *)
C8_AsStated ==
    \A r \in InitialisedRows :
        \/ mv.Lake_Stage[r] = stg2sto(mv.Storage[r], 1)
        \/ mv.Storage[r] = stg2sto(mv.Lake_Stage[r], 0)

\* no net inflow, rainfall or evapotranspiration on any row
ZeroForcing ==
    \A r \in 0 .. (n_rows - 1) :
        inp.Net_Inflow[r] = 0 /\ mv.RF[r] = 0 /\ mv.ET[r] = 0

(* C9, as stated: when a run over a 10-day horizon (rows 1 .. 10) with zero *)
(* forcing under the default options has ended, Storage has one value on    *)
(* the 10 days and Lake_Stage has one value on the 10 days.                 *)
C9_AsStated ==
    (RunEnded /\ n_rows = MaxRows /\ cfg = DefaultConfig /\ ZeroForcing)
        => \A r1, r2 \in 1 .. (n_rows - 1) :
              /\ mv.Storage[r1] = mv.Storage[r2]
              /\ mv.Lake_Stage[r1] = mv.Lake_Stage[r2]

(* C12, as stated: under either value of sim_type the two steps that set   *)
(* the regulatory releases of the primary outlets complete without error:   *)
(* _calculate_outlet2usrg_code, which assigns Outlet2USRG[i + 2], is         *)
(* followed by _calculate_outlet2ds, and _calculate_outlet1usreg, which      *)
(* assigns Outlet1USREG[i + 2], by _calculate_outlet1ds.                     *)
C12_AsStated ==
    [][/\ pc = "calculate_outlet2usrg_code" => pc' = "calculate_outlet2ds"
       /\ pc = "calculate_outlet1usreg" => pc' = "calculate_outlet1ds"]_vars

(* C13, as stated: the table _update_lo_model leaves has one row for each   *)
(* date of the run and every row carries the stage, the storage, the         *)
(* outflows of the two primary outlets, the environmental water supply, the  *)
(* cutback and the demand not supplied of its day (the date is the row).     *)
C13_AsStated ==
    call = "update_lo_model"
        => \A a \in {"Lake_Stage", "Storage", "Outlet1USREG", "Outlet2USRG",
                     "Outlet1USEWS", "Cut_back", "Dem_N_Sup"} :
              \E col \in DOMAIN inp :
                 /\ DOMAIN inp[col] = 0 .. (n_rows - 1)
                 /\ inp[col] = mv[a]

\* the calls LOONE_Q makes before the daily loop
SetupCalls ==
    {"initialize_model_variables_stage_levels_flags",
     "calculate_initial_zone_code_and_lo_zone"}

\* an option no rule of the Adaptive Protocol supports
InvalidOption ==
    cfg.OptSalFcast \in {1, 2} \/ cfg.Opt_CEews_LOWSM \notin {0, 1, 2}

(* C14, as stated: under an unsupported option the run is aborted during   *)
(* setup: the first iteration of the daily loop never starts, and when the   *)
(* run has ended it ended in an error with no array of day 2 written.        *)
C14_AsStated ==
    InvalidOption
        => /\ pc \in SetupCalls \cup {"error"}
           /\ (pc = "error" /\ n_rows > 2)
                => (mv.WSM_Zone[2] = 0 /\ mv.LOSA_Supply[2] = 0)

\* the offset of the element iteration i writes, for each array of length
\* n_rows: i for DayFlags, i + 1 for the zone arrays and dh_7days, i + 2 for
\* every other array
WriteOffset(f) ==
    IF f = "DayFlags" THEN 0
    ELSE IF f \in {"Zone_Code", "LO_Zone", "dh_7days", "ZoneCodeminus1Code",
                   "ZoneCodeCode", "Fraction_of_Zone_height"} THEN 1
    ELSE 2

C16_AsStated ==
    RunEnded
        => /\ pc = "done"
           /\ n_rows >= 3 => i = n_rows - 3
           /\ \A r \in 2 .. (n_rows - 1) : mv.Lake_Stage[r] # 0

(* C17: under the same thresholds a lower stage never gets a higher zone    *)
(* code: of two days classified against equal rows of df_WSMs, the one with  *)
(* the lower stage has a zone code that is less than or equal to the other.  *)
C17_ZoneMonotone ==
    call = "calculate_zone_code"
        => \A r1, r2 \in 1 .. 2 :
              (/\ inp.df_WSMs[r1] = inp.df_WSMs[r2]
               /\ mv.Lake_Stage[r1] < mv.Lake_Stage[r2])
                  => mv.Zone_Code[r1] <= mv.Zone_Code[r2]

C17_Witness ==
    /\ call = "calculate_zone_code"
    /\ inp.df_WSMs[1] = inp.df_WSMs[2]
    /\ mv.Lake_Stage[1] = 105
    /\ mv.Lake_Stage[2] = 170
    /\ mv.Zone_Code[1] < mv.Zone_Code[2]

\* a stage / a storage within the reference curve
InCurve(v, col) ==
    /\ StgStoCurve[1][col] <= v
    /\ v <= StgStoCurve[Len(StgStoCurve)][col]

InitRows(f) ==
    IF f \in {"Lake_Stage", "DecTree_Relslevel"} THEN {0, 1}
    ELSE IF f = "DayFlags" THEN {2}
    ELSE IF f \in {"Zone_Code", "LO_Zone"} THEN {0}
    ELSE {}

\* row r of array f has been assigned when iteration ii begins: by the calls
\* before the loop or by an iteration j < ii, which writes row
\* j + WriteOffset(f) (DayFlags from j = 3 on, dh_7days from j = 6 on)
AssignedBefore(f, r, ii) ==
    \/ r \in InitRows(f)
    \/ \E j \in 0 .. (ii - 1) :
          /\ r = j + WriteOffset(f)
          /\ f = "DayFlags" => j >= 3
          /\ f = "dh_7days" => j >= 6

\* the elements of rows other than the iteration's own that a call reads:
\* _calculate_release_levels (lines 341, 346), _calculate_outlet2ds_mult
\* (485), _calculate_outlet2usbk (616), _calculate_outlet1us_mult (729) and
\* _calculate_outlet1usbk (864, 865)
ReadsBack(step, ii) ==
    IF step = "calculate_release_levels"
    THEN {<<"DayFlags", ii + 2>>, <<"Release_Level", ii + 1>>}
    ELSE IF step \in {"calculate_outlet2ds_mult", "calculate_outlet1us_mult"}
    THEN {<<"dh_7days", ii + 1>>}
    ELSE IF step = "calculate_outlet2usbk"
    THEN {<<"Outlet2USRG", ii + 1>>}
    ELSE IF step = "calculate_outlet1usbk"
    THEN {<<"Outlet1USBSAP", ii + 1>>, <<"Outlet1USEWS", ii + 1>>}
    ELSE {}

(* C20, as stated: every element a call of iteration i is about to read has *)
(* been assigned, by the calls before the loop or by an earlier iteration,   *)
(* so that the 0 the arrays are created with is never the value read; the    *)
(* elements are DayFlags[i + 2], Release_Level[i + 1], dh_7days[i + 1],       *)
(* Outlet2USRG[i + 1], Outlet1USBSAP[i + 1] and Outlet1USEWS[i + 1].          *)
C20_AsStated ==
    \A e \in ReadsBack(pc, i) :
        \/ AssignedBefore(e[1], e[2], i)
        \/ mv[e[1]][e[2]] # 0

(* C21, as stated: once the pulse-day step of iteration i has consumed      *)
(* DayFlags[i + 2], that element is the flag of the date of row i + 2:       *)
(* SimDay1 when the month and the day are those of the start date, the date  *)
(* itself otherwise; and in the first iteration the first simulated day, the *)
(* start date (row 1) or the first row computed (row 2), is flagged SimDay1. *)
C21_AsStated ==
    pc = "calculate_zone_codes"
        => /\ mv.DayFlags[i + 2] =
                  IF /\ cfg.start.m = RowDate(cfg.start, i + 2).m
                     /\ cfg.start.d = RowDate(cfg.start, i + 2).d
                  THEN SimDay1
                  ELSE DateCode(RowDate(cfg.start, i + 2))
           /\ i = 0 => SimDay1 \in {mv.DayFlags[1], mv.DayFlags[2]}

\* the place of a call in the body of the loop
Pos(step) == CHOOSE k \in 1 .. Len(LoopOrder) : LoopOrder[k] = step

\* the call that assigns the element of the day in each of the arrays the
\* Adaptive Protocol reads or feeds
APWriter ==
    [WSM_Zone |-> "calculate_wsm_zone", Zone_Code |-> "calculate_zone_code",
     Outlet1USRS |-> "calculate_outlet1usrs",
     Outlet1USBS |-> "calculate_outlet1usbs",
     Outlet1USBSAP |-> "calculate_outlet1usbsap",
     Outlet1USEWS |-> "calculate_outlet1usews",
     Storage |-> "calculate_dsto_and_storage"]

(* C22: within an iteration the calls follow one another in the order of    *)
(* the loop body; WSM_Zone, Zone_Code, Outlet1USRS and Outlet1USBS change    *)
(* only in their own calls, which come before the Adaptive Protocol, and     *)
(* Lake_Stage[i + 1] is not changed by the iteration; the Adaptive Protocol  *)
(* arrays change only in the Adaptive Protocol call, which when it ends      *)
(* without an error has copied the values assigned; Outlet1USBSAP and Outlet1USEWS change only in their own calls,  *)
(* after the Adaptive Protocol and from its outputs, and before the call     *)
(* that updates the storage.                                                 *)
C22_APOrdering ==
    [][pc \notin SetupCalls =>
        /\ \/ pc' \in {pc, "error"}
           \/ /\ Pos(pc') = Pos(pc) + 1
              /\ i' = i
        /\ \A f \in DOMAIN APWriter : mv'[f] # mv[f] => pc = APWriter[f]
        /\ mv'.Lake_Stage[i + 1] = mv.Lake_Stage[i + 1]
        /\ \A f \in {"WSM_Zone", "Zone_Code", "Outlet1USRS", "Outlet1USBS"} :
              Pos(APWriter[f]) < Pos("define_thc_class_normal_or_above")
        /\ ap' # ap
             => /\ pc = "define_thc_class_normal_or_above"
                /\ err' = "none"
                     => /\ ap'.Lake_O_Stage_AP[i] = mv.Lake_Stage[i + 1]
                        /\ ap'.Lake_O_Schedule_Zone[i] = mv.Zone_Code[i + 1]
                        /\ ap'.S77RS_AP[i] = mv.Outlet1USRS[i + 2]
                        /\ ap'.S77BS_AP[i] = mv.Outlet1USBS[i + 2]
        /\ pc = "calculate_outlet1usbsap"
             => /\ Pos("define_thc_class_normal_or_above") < Pos(pc)
                /\ mv'.Outlet1USBSAP[i + 2]
                      \in {mv.Outlet1USBS[i + 2], ap.Post_Ap_Baseflow[i]}
        /\ pc = "calculate_outlet1usews"
             => /\ Pos("define_thc_class_normal_or_above") < Pos(pc)
                /\ mv'.Outlet1USEWS[i + 2] \in {ap.Post_AP_EWS[i], 0}
        /\ Pos("calculate_outlet1usews") < Pos("calculate_dsto_and_storage")
        /\ Pos("calculate_outlet1usbsap") < Pos("calculate_dsto_and_storage")
      ]_vars

C22_Witness ==
    /\ pc = "calculate_dsto_and_storage"
    /\ err = "none"
    /\ ap.S77BS_AP[i] = mv.Outlet1USBS[i + 2]
    /\ ap.Post_Ap_Baseflow[i] > 0
    /\ mv.Outlet1USBSAP[i + 2] = ap.Post_Ap_Baseflow[i]
    /\ mv.WSM_Zone[i + 2] # 0
    /\ mv.Storage[i + 2] = 0

(* C23, as stated: on a day the chain ran, under a salinity policy other    *)
(* than 3 n30davgForecast[i] is set, and is true exactly when one of the     *)
(* moving averages of the 13 days from day i on, each of them computed,      *)
(* exceeds CE_SalThreshold; under policy 3 it is the 'Estuary Needs Water?'  *)
(* input of day i.                                                           *)
C23_AsStated ==
    APRan
        => IF cfg.OptSalFcast = 3
           THEN err = "none"
                   => ap.n30davgForecast[i] = inp.Estuary_needs_water[i]
           ELSE /\ err = "none"
                /\ ap.n30davgForecast[i] = 1
                     <=> \E k \in DOMAIN ap.n30d_mavg :
                            /\ k \in i .. (i + 12)
                            /\ ap.n30d_mavg[k] # NaN
                            /\ ap.n30d_mavg[k] > cfg.CE_SalThreshold

(* C24, as stated: on a day the chain ran, LowChance_Check[i] is true       *)
(* exactly when Lake_Stage[i + 1] is above the level of the day: under       *)
(* Opt_LChance_line = 1, WSM1 from June to September and WSM1 + 0.5 ft in    *)
(* the other months; otherwise -999 ft when LowChance = 1 or the month is    *)
(* one of June to September, and the target stage of the date in the other   *)
(* cases.                                                                    *)
C24_AsStated ==
    APRan
        => \E tb \in {APTables(cfg.start, i, 0, 0)} :
           \E level \in
                {IF cfg.Opt_LChance_line = 1
                 THEN IF tb.month \in 6 .. 9 THEN tb.WSM1 ELSE tb.WSM1 + 5
                 ELSE IF cfg.LowChance = 1 \/ tb.month \in 6 .. 9
                      THEN -9990
                      ELSE tb.Targ_Stg} :
              ap.LowChance_Check[i] = 1 <=> mv.Lake_Stage[i + 1] > level

(* C25: on a day the chain evaluated the rule (it raises before it under a  *)
(* salinity policy other than 3 or a LowChance without a column),            *)
(* LDS_LC6_1[i] is LowChance_Check[i] when Late_Dry_Season_Option is not 1;  *)
(* when the option is 1 it is LowChance_Check[i] on the days of April and    *)
(* May, the late dry season, and false on the days of every other month.     *)
C25_LateDrySeason ==
    (APRan /\ cfg.OptSalFcast = 3 /\ cfg.LowChance \in TargColumns)
        => ap.LDS_LC6_1[i] =
              IF cfg.Late_Dry_Season_Option # 1 THEN ap.LowChance_Check[i]
              ELSE IF APDate(cfg.start, i).m \in {4, 5}
                   THEN ap.LowChance_Check[i]
                   ELSE 0

C25_Witness ==
    /\ APDone
    /\ cfg.Late_Dry_Season_Option = 1
    /\ APDate(cfg.start, i).m = 4
    /\ ap.LowChance_Check[i] = 1
    /\ ap.LDS_LC6_1[i] = 1

C27_DemandNotSupplied ==
    [][/\ pc = "calculate_cutback"
            => /\ pc' = "calculate_demand_not_supplied"
               /\ mv'.Cut_back[i + 2] =
                     inp.LOSA_dmd_SFWMM[i + 2] - mv.LOSA_Supply[i + 2]
       /\ pc = "calculate_demand_not_supplied"
            => /\ pc' = "calculate_zone_code"
               /\ err' = "none"
               /\ mv'.Cut_back[i + 2] =
                     inp.LOSA_dmd_SFWMM[i + 2] - mv.LOSA_Supply[i + 2]
               /\ mv'.Dem_N_Sup[i + 2] =
                     IF inp.LOSA_dmd_SFWMM[i + 2] = 0 THEN 0
                     ELSE (100 * mv'.Cut_back[i + 2])
                              \div inp.LOSA_dmd_SFWMM[i + 2]
      ]_vars

\* a day without demand: the cutback is negative and the share is 0
C27_Witness ==
    /\ pc = "calculate_zone_code"
    /\ err = "none"
    /\ inp.LOSA_dmd_SFWMM[i + 2] = 0
    /\ mv.LOSA_Supply[i + 2] > 0
    /\ mv.Cut_back[i + 2] = 0 - mv.LOSA_Supply[i + 2]
    /\ mv.Dem_N_Sup[i + 2] = 0

(* C28: on every day the chain ran to its end, under every setting of the   *)
(* options, Post_Ap_Baseflow[i] is 0 when the pre-AP baseflow S77BS_AP[i]    *)
(* is 0 or negative and lies between 0 and S77BS_AP[i] otherwise; the        *)
(* constant of the bounded branch, choose_1, is not negative.                *)
C28_BaseflowBounded ==
    APDone
        => /\ choose_1 >= 0
           /\ ap.S77BS_AP[i] <= 0 => ap.Post_Ap_Baseflow[i] = 0
           /\ ap.S77BS_AP[i] > 0
                => /\ 0 <= ap.Post_Ap_Baseflow[i]
                   /\ ap.Post_Ap_Baseflow[i] <= ap.S77BS_AP[i]

\* a negative baseflow in the baseflow sub-band, the estuary in need of
\* water, under the option that lets the sub-band decide
C28_Witness ==
    /\ APDone
    /\ ap.S77BS_AP[i] < 0
    /\ cfg.Opt_NoAP_above_BF_SB = 1
    /\ ap.Lake_O_Schedule_Zone[i] = 4
    /\ ap.n30davgForecast[i] = 1
    /\ ap.Post_Ap_Baseflow[i] = 0


\* C29: baseflow and environmental water supply exclude each other. On a
\* day whose regulatory release S77RS_AP is not negative, the post-AP
\* baseflow and the post-AP EWS are never both positive: a positive post-AP
\* baseflow needs a positive pre-AP baseflow, and a positive EWS needs the
\* sum S77RS_AP + S77BS_AP to be zero.
C29_BaseflowEwsExclusive ==
    APDone =>
        /\ ap.Post_Ap_Baseflow[i] > 0 => ap.S77BS_AP[i] > 0
        /\ ap.Post_AP_EWS[i] > 0 => ap.S77RS_AP[i] + ap.S77BS_AP[i] = 0
        /\ ap.S77RS_AP[i] >= 0 =>
               ~(ap.Post_Ap_Baseflow[i] > 0 /\ ap.Post_AP_EWS[i] > 0)

\* the estuary needs water late in the dry season on a day with a pre-AP
\* baseflow and no regulatory release: the baseflow is released, no EWS is
C29_Witness ==
    /\ APDone
    /\ ap.S77RS_AP[i] = 0
    /\ ap.S77BS_AP[i] > 0
    /\ ap.n30davgForecast[i] = 1
    /\ ap.LDS_LC6_1[i] = 1
    /\ ap.Post_Ap_Baseflow[i] > 0
    /\ ap.Post_AP_EWS[i] = 0


(* C30: index bounds.  On every day i of the loop, for every length of the *)
(* store: the arrays of length n_rows are indexed at most at                 *)
(* i + 2 <= n_rows - 1, the decision-tree and Adaptive Protocol arrays of    *)
(* length n_rows - 1 at most at i <= n_rows - 3, and the lookback row i - 6  *)
(* is read only when i >= 6; no element is written outside rows i, i + 1 and *)
(* i + 2, so no index is out of range or counts from the end of an array.    *)
C30_IndexBounds ==
    call = "calculate_release_levels"
        => /\ 0 <= i
           /\ i + 2 <= n_rows - 1
           /\ \A f \in MVFields : DOMAIN mv[f] = 0 .. (n_rows - 1)
           /\ i <= n_rows - 3
           /\ \A f \in DTFields : DOMAIN dt[f] = 0 .. (n_rows - 2)
           /\ \A f \in APFields : DOMAIN ap[f] = 0 .. (n_rows - 2)
           /\ \A f \in MVFields \ {"Lake_Stage"} :
                 \A r \in DOMAIN mv[f] :
                     mv[f][r] # 0 => r \in {i, i + 1, i + 2}
           /\ IF i >= 6
              THEN /\ i - 6 \in DOMAIN mv.Lake_Stage
                   /\ mv.dh_7days[i + 1] =
                          mv.Lake_Stage[i + 1] - mv.Lake_Stage[i - 6]
              ELSE \A r \in DOMAIN mv.dh_7days : mv.dh_7days[r] = 0

\* the last day of a store of nine rows is the first day that looks back:
\* row 0 is read, the stage has changed over the seven days
C30_Witness ==
    /\ call = "calculate_release_levels"
    /\ n_rows = 9
    /\ i = n_rows - 3
    /\ i - 6 = 0
    /\ mv.PlsDay[i + 2] # 0
    /\ mv.dh_7days[i + 1] # 0

=============================================================================
